---- MODULE Spec2Model ----
(***************************************************************************)
(* Verification model of the funding-application PDF generator:            *)
(*   - field normalization helpers (pdf-layout, pdf-template-fill, server) *)
(*   - the Template Filler and the generation selection of the server      *)
(*   - the one-page Layout Renderer's geometry                             *)
(* Strings are sequences of one-character strings, so that trimming,       *)
(* lower-casing, splitting and joining are computed, not assumed.          *)
(***************************************************************************)
EXTENDS Integers, Sequences, FiniteSets, TLC

VARIABLES
    nv,       \* normalization: the JavaScript value handed to a helper
    ncall,    \* normalization: the helper applied last ("idle" before any)
    nout,     \* normalization: the string that helper returned
    nprev,    \* normalization: the output the helper was re-applied to
    gcaller,  \* generation: "server" (generateApplicationPdf) or "direct" (the filler alone)
    gcwd,     \* generation: the process's working directory
    grec,     \* generation: the application record
    gopt,     \* generation: the options handed to the Template Filler
    gpc,      \* generation: the position of the call
    glog,     \* generation: the operations performed so far, in order
    gform,    \* generation: the names of the form fields of the loaded template
    gwritten, \* generation: the text written into each field that was set
    gbuf,     \* generation: the pipeline whose buffer is held ("none" before any)
    goutcome, \* generation: "pending", "resolved" or "rejected"
    lrec,     \* layout: the application record, field key -> JavaScript value
    lopt,     \* layout: the options of generateApplicationPdfBuffer
    lenv,     \* layout: what the renderer finds outside (logo files, text measure)
    lpc,      \* layout: the position of the render
    llogo,    \* layout: options.logoSvg as handed to renderOnePageLayout
    lhead,    \* layout: the header drawn ("none", "logo" or "text")
    ly,       \* layout: the Y coordinate, whole points
    lyfrac,   \* layout: the rest of the Y coordinate, in 1/(10000 * den) points
    lconfig,  \* layout: the LayoutConfig in use
    lsec,     \* layout: the index of the section being drawn
    lrow,     \* layout: the index of the next row of that section
    ldrawn,   \* layout: the cells of the row drawn last
    lauth,    \* layout: how the authorization clause was drawn
    lpages,   \* layout: the number of pages of the document
    lnow,     \* layout: the wall clock, in seconds
    ldoc,     \* layout: the document of the call: its creation date and what was drawn
    lfirst,   \* layout: the document an earlier call with the same arguments resolved with
    calls,    \* concurrent generation: each call's record, document stream and chunk list
    sfiles,   \* local storage: the content of each JSON file ("missing" before it exists)
    sreq,     \* local storage: each request's position, local array and response
    apply,    \* POST /api/apply: the request, its position, its record and its response
    scl,      \* scale resolution: the options, the header's Y, the scale and the LayoutConfig
    cmp,      \* createLayoutConfig at two scales: the scales and the two LayoutConfigs
    frow,     \* drawFieldRow on its own: the margin, the row and the cells drawn
    trunc,    \* truncateText on its own: the value, the width and the text returned
    comp,     \* derivations: the record and the strings the two pipelines derive from it
    rl,       \* rate limiting: the clock, the buckets and the answer to the last request
    steps     \* multi-step form: the current step, what is shown and the fields' validity

nvars == <<nv, ncall, nout, nprev>>
gvars == <<gcaller, gcwd, grec, gopt, gpc, glog, gform, gwritten, gbuf, goutcome>>
lvars == <<lrec, lopt, lenv, lpc, llogo, lhead, ly, lyfrac, lconfig, lsec, lrow, ldrawn,
           lauth, lpages, lnow, ldoc, lfirst>>
cvars == <<calls>>
svars == <<sfiles, sreq>>
avars == <<apply>>
kvars == <<scl>>
mvars == <<cmp>>
xvars == <<cvars, svars, avars, kvars, mvars>>
zvars == <<frow, trunc, comp, rl, steps>>
vars == <<nvars, gvars, lvars, xvars, zvars>>

(***************************************************************************)
(* JavaScript values.  Every value has the same record shape:              *)
(*   t : the type tag, s : the characters of a string / the decimal or     *)
(*   literal spelling of a number or boolean, a : the items of an array.   *)
(***************************************************************************)
JsUndefined == [t |-> "undefined", s |-> <<>>, a |-> <<>>]
JsNull == [t |-> "null", s |-> <<>>, a |-> <<>>]
JsStr(s) == [t |-> "string", s |-> s, a |-> <<>>]
JsNum(digits) == [t |-> "number", s |-> digits, a |-> <<>>]
JsBool(spelling) == [t |-> "boolean", s |-> spelling, a |-> <<>>]
JsObject == [t |-> "object", s |-> <<>>, a |-> <<>>]
JsArr(items) == [t |-> "array", s |-> <<>>, a |-> items]

\* Characters String.prototype.trim() strips (the ones the model's inputs use).
WhiteSpace == {" ", "\t", "\n"}

Digits == {"0", "1", "2", "3", "4", "5", "6", "7", "8", "9"}

UpperChars ==
    <<"A", "B", "C", "D", "E", "F", "G", "H", "I", "J", "K", "L", "M",
      "N", "O", "P", "Q", "R", "S", "T", "U", "V", "W", "X", "Y", "Z">>
LowerChars ==
    <<"a", "b", "c", "d", "e", "f", "g", "h", "i", "j", "k", "l", "m",
      "n", "o", "p", "q", "r", "s", "t", "u", "v", "w", "x", "y", "z">>

\* String.prototype.toLowerCase(), character by character.
LowerChar(c) ==
    IF \E i \in 1..Len(UpperChars) : UpperChars[i] = c
    THEN LowerChars[CHOOSE i \in 1..Len(UpperChars) : UpperChars[i] = c]
    ELSE c

toLowerCase(s) == [i \in 1..Len(s) |-> LowerChar(s[i])]

RECURSIVE trimStart(_)
trimStart(s) ==
    IF s # <<>> /\ Head(s) \in WhiteSpace THEN trimStart(Tail(s)) ELSE s

RECURSIVE trimEnd(_)
trimEnd(s) ==
    IF s # <<>> /\ s[Len(s)] \in WhiteSpace
    THEN trimEnd(SubSeq(s, 1, Len(s) - 1))
    ELSE s

\* String.prototype.trim()
trim(s) == trimEnd(trimStart(s))

\* Array.prototype.join(sep) over a sequence of strings.
RECURSIVE join(_, _)
join(strs, sep) ==
    IF strs = <<>> THEN <<>>
    ELSE IF Len(strs) = 1 THEN strs[1]
    ELSE strs[1] \o sep \o join(Tail(strs), sep)

\* The global String(value) conversion.
RECURSIVE String(_)
String(v) ==
    CASE v.t = "string" -> v.s
      [] v.t = "number" -> v.s
      [] v.t = "boolean" -> v.s
      [] v.t = "undefined" -> <<"u", "n", "d", "e", "f", "i", "n", "e", "d">>
      [] v.t = "null" -> <<"n", "u", "l", "l">>
      [] v.t = "object" ->
            <<"[", "o", "b", "j", "e", "c", "t", " ", "O", "b", "j", "e", "c", "t", "]">>
      [] v.t = "array" ->
            \* Array.prototype.toString: items joined by ",", null/undefined as ""
            join([i \in 1..Len(v.a) |->
                    IF v.a[i].t \in {"undefined", "null"} THEN <<>> ELSE String(v.a[i])],
                 <<",">>)

\* items.map(f).filter(Boolean): the non-empty strings, in order.
NonEmptyOnly(strs) == SelectSeq(strs, LAMBDA x : x # <<>>)

CommaSpace == <<",", " ">>

(***************************************************************************)
(* normalizeValue: the three copies.                                       *)
(***************************************************************************)
normalizeValue_trimStartOnly(value) ==
    IF value.t = "array"
    THEN join(NonEmptyOnly([i \in 1..Len(value.a) |-> trim(String(value.a[i]))]), CommaSpace)
    ELSE IF value.t \in {"undefined", "null"} THEN <<>>
    ELSE trimStart(String(value))

\* pdf-layout
normalizeValue(value) ==
    IF value.t = "array"
    THEN join(NonEmptyOnly([i \in 1..Len(value.a) |-> trim(String(value.a[i]))]), CommaSpace)
    ELSE IF value.t \in {"undefined", "null"} THEN <<>>
    ELSE trim(String(value))

\* pdf-template-fill
normalizeValue_fill(value) ==
    IF value.t = "array"
    THEN join(NonEmptyOnly([i \in 1..Len(value.a) |-> trim(String(value.a[i]))]), CommaSpace)
    ELSE IF value.t \in {"undefined", "null"} THEN <<>>
    ELSE trim(String(value))

\* server
normalizeValue_server(value) ==
    IF value.t = "array"
    THEN join(NonEmptyOnly([i \in 1..Len(value.a) |-> trim(String(value.a[i]))]), CommaSpace)
    ELSE IF value.t \in {"undefined", "null"} THEN <<>>
    ELSE trim(String(value))

(***************************************************************************)
(* toYesNo: pdf-layout, pdf-template-fill and server copies.               *)
(***************************************************************************)
W_yes == <<"y", "e", "s">>
W_true == <<"t", "r", "u", "e">>
W_1 == <<"1">>
W_on == <<"o", "n">>
W_checked == <<"c", "h", "e", "c", "k", "e", "d">>
W_no == <<"n", "o">>
W_false == <<"f", "a", "l", "s", "e">>
W_0 == <<"0">>
W_off == <<"o", "f", "f">>
YES == <<"Y", "E", "S">>
NO == <<"N", "O">>

toYesNo_caseSensitive(value) ==
    LET normalized == normalizeValue(value)
    IN  IF normalized = <<>> THEN <<>>
        ELSE IF normalized \in {W_yes, W_true, W_1, W_on} THEN YES
        ELSE IF normalized \in {W_no, W_false, W_0, W_off} THEN NO
        ELSE normalizeValue(value)

\* pdf-layout
toYesNo(value) ==
    LET normalized == toLowerCase(normalizeValue(value))
    IN  IF normalized = <<>> THEN <<>>
        ELSE IF normalized \in {W_yes, W_true, W_1, W_on} THEN YES
        ELSE IF normalized \in {W_no, W_false, W_0, W_off} THEN NO
        ELSE normalizeValue(value)

\* pdf-template-fill
toYesNo_fill(value) ==
    LET normalized == toLowerCase(normalizeValue_fill(value))
    IN  IF normalized = <<>> THEN <<>>
        ELSE IF normalized \in {W_yes, W_true, W_1, W_on, W_checked} THEN YES
        ELSE IF normalized \in {W_no, W_false, W_0, W_off} THEN NO
        ELSE normalizeValue_fill(value)

\* server
toYesNo_server(value) ==
    LET normalized == toLowerCase(normalizeValue_server(value))
    IN  IF normalized = <<>> THEN <<>>
        ELSE IF normalized \in {W_yes, W_true, W_1, W_on} THEN YES
        ELSE IF normalized \in {W_no, W_false, W_0, W_off} THEN NO
        ELSE normalizeValue_server(value)

(***************************************************************************)
(* formatDate (pdf-template-fill).                                         *)
(***************************************************************************)
\* /^\d{4}-\d{2}-\d{2}$/.test(s)
MatchesIsoDate(s) ==
    /\ Len(s) = 10
    /\ \A i \in {1, 2, 3, 4, 6, 7, 9, 10} : s[i] \in Digits
    /\ s[5] = "-"
    /\ s[8] = "-"

\* s.split('-'): the pieces between dashes.
RECURSIVE split(_, _)
split(s, cur) ==
    IF s = <<>> THEN <<cur>>
    ELSE IF Head(s) = "-" THEN <<cur>> \o split(Tail(s), <<>>)
    ELSE split(Tail(s), Append(cur, Head(s)))

formatDate_dayFirst(value) ==
    LET normalized == normalizeValue_fill(value)
    IN  IF normalized = <<>> THEN <<>>
        ELSE IF MatchesIsoDate(normalized)
             THEN LET parts == split(normalized, <<>>)
                  IN  parts[3] \o <<"/">> \o parts[2] \o <<"/">> \o parts[1]
             ELSE normalized

formatDate(value) ==
    LET normalized == normalizeValue_fill(value)
    IN  IF normalized = <<>> THEN <<>>
        ELSE IF MatchesIsoDate(normalized)
             THEN LET parts == split(normalized, <<>>)
                  IN  parts[2] \o <<"/">> \o parts[3] \o <<"/">> \o parts[1]
             ELSE normalized

(***************************************************************************)
(* Normalization helpers applied to bounded inputs.                        *)
(***************************************************************************)
\* Bounds of the helper inputs.
MaxFreeLen == 2
MaxArrayLen == 2

FreeAlphabet == {" ", "a", "N", "1", "-"}

FreeStrings == UNION {[1..k -> FreeAlphabet] : k \in 0..MaxFreeLen}

Words == {
    <<"y", "e", "s">>,
    <<"Y", "e", "s">>,
    <<"Y", "E", "S">>,
    <<"t", "r", "u", "e">>,
    <<"T", "R", "U", "E">>,
    <<"1">>,
    <<"o", "n">>,
    <<"O", "n">>,
    <<"O", "N">>,
    <<"c", "h", "e", "c", "k", "e", "d">>,
    <<"C", "h", "e", "c", "k", "e", "d">>,
    <<"n", "o">>,
    <<"N", "o">>,
    <<"N", "O">>,
    <<"f", "a", "l", "s", "e">>,
    <<"F", "a", "l", "s", "e">>,
    <<"0">>,
    <<"o", "f", "f">>,
    <<"O", "F", "F">>,
    <<"M", "a", "y", "b", "e">>,
    <<"y">>,
    <<"o", "n", "e">>,
    <<"1", "0">>,
    <<"y", "e", "s", " ", "n", "o">>,
    <<"M", "a", "r", "c", "h", " ", "5">>,
    <<"2", "0", "2", "4", "-", "0", "3", "-", "0", "5">>,
    <<"2", "0", "2", "4", "-", "3", "-", "0", "5">>,
    <<"2", "0", "2", "4", "-", "0", "3", "-", "0", "5", "1">>,
    <<"2", "0", "2", "4", "/", "0", "3", "/", "0", "5">>,
    <<"0", "3", "/", "0", "5", "/", "2", "0", "2", "4">>,
    <<"1", "9", "9", "9", "-", "1", "2", "-", "3", "1">>
}

Pads == {<<>>, <<" ">>, <<"\t", "\n">>}

PaddedWords == {p \o w \o r : p \in Pads, w \in Words, r \in Pads}

\* Ten-character strings that have, or miss in some positions, the shape
\* dddd-dd-dd.
DateShaped ==
    {<<c[1], c[2], c[3], c[4], d[1], c[5], c[6], d[2], c[7], c[8]>> :
        c \in [1..8 -> {"7", "x"}], d \in [1..2 -> {"-", "/"}]}

InputStrings == FreeStrings \cup PaddedWords \cup DateShaped

ItemValues == {
    JsStr(<<"a">>), JsStr(<<>>), JsStr(<<"b", " ">>), JsStr(<<" ">>), JsNull,
    JsUndefined, JsNum(<<"1">>), JsStr(W_yes),
    JsStr(<<"2", "0", "2", "4", "-", "0", "3", "-", "0", "5">>),
    JsArr(<<JsStr(<<"a">>), JsNull, JsStr(<<"b">>)>>)
}

ExampleArray == JsArr(<<JsStr(<<"a">>), JsStr(<<>>), JsStr(<<"b", " ">>)>>)

InputArrays ==
    {JsArr(items) : items \in UNION {[1..k -> ItemValues] : k \in 0..MaxArrayLen}}
        \cup {ExampleArray}

InputValues ==
    {JsStr(s) : s \in InputStrings}
        \cup InputArrays
        \cup {JsUndefined, JsNull, JsObject,
              JsNum(<<"0">>), JsNum(<<"1">>), JsNum(<<"4", "2">>),
              JsBool(W_true), JsBool(W_false)}

NormOff ==
    /\ nv = JsUndefined
    /\ ncall = "off"
    /\ nout = <<>>
    /\ nprev = <<>>

NormInit ==
    /\ nv \in InputValues
    /\ ncall = "idle"
    /\ nout = <<>>
    /\ nprev = <<>>

Apply(name, result) ==
    /\ ncall = "idle"
    /\ ncall' = name
    /\ nout' = result
    /\ UNCHANGED <<nv, nprev, gvars, lvars, xvars, zvars>>

CallNormalizeValue == Apply("normalizeValue", normalizeValue(nv))
CallNormalizeValueFill == Apply("normalizeValue_fill", normalizeValue_fill(nv))
CallNormalizeValueServer == Apply("normalizeValue_server", normalizeValue_server(nv))
CallToYesNo == Apply("toYesNo", toYesNo(nv))
CallToYesNoFill == Apply("toYesNo_fill", toYesNo_fill(nv))
CallToYesNoServer == Apply("toYesNo_server", toYesNo_server(nv))
CallFormatDate == Apply("formatDate", formatDate(nv))

\* formatDate applied to the string an earlier formatDate returned.
CallFormatDateAgain ==
    /\ ncall = "formatDate"
    /\ ncall' = "formatDate.formatDate"
    /\ nprev' = nout
    /\ nout' = formatDate(JsStr(nout))
    /\ UNCHANGED <<nv, gvars, lvars, xvars, zvars>>

NormNext ==
    \/ CallNormalizeValue
    \/ CallNormalizeValueFill
    \/ CallNormalizeValueServer
    \/ CallToYesNo
    \/ CallToYesNoFill
    \/ CallToYesNoServer
    \/ CallFormatDate
    \/ CallFormatDateAgain


(***************************************************************************)
(* Reference statements of the helpers, written without the code's         *)
(* operators: trimming as "the middle part between two runs of white       *)
(* space", the array case as a fold from the right, letter case by the     *)
(* letter table.                                                           *)
(***************************************************************************)
IsTrimOf(s, r) ==
    \E i \in 0..Len(s) : \E j \in i..Len(s) :
        /\ r = SubSeq(s, i + 1, j)
        /\ \A k \in 1..i : s[k] \in WhiteSpace
        /\ \A k \in (j + 1)..Len(s) : s[k] \in WhiteSpace
        /\ r # <<>> => (r[1] \notin WhiteSpace /\ r[Len(r)] \notin WhiteSpace)

TrimRef(s) ==
    CHOOSE r \in {SubSeq(s, i + 1, j) : i \in 0..Len(s), j \in 0..Len(s)} : IsTrimOf(s, r)

RECURSIVE JoinRef(_)
JoinRef(items) ==
    IF items = <<>> THEN <<>>
    ELSE LET init == JoinRef(SubSeq(items, 1, Len(items) - 1))
             last == TrimRef(String(items[Len(items)]))
         IN  IF last = <<>> THEN init
             ELSE IF init = <<>> THEN last
             ELSE init \o <<",", " ">> \o last

NormalizeRef(v) ==
    CASE v.t = "array" -> JoinRef(v.a)
      [] v.t \in {"undefined", "null"} -> <<>>
      [] OTHER -> TrimRef(String(v))

SameLetter(c, d) ==
    \/ c = d
    \/ \E i \in 1..Len(UpperChars) : {c, d} = {UpperChars[i], LowerChars[i]}

EqualsIgnoreCase(s, w) ==
    /\ Len(s) = Len(w)
    /\ \A i \in 1..Len(s) : SameLetter(s[i], w[i])

IsOneOf(s, words) == \E w \in words : EqualsIgnoreCase(s, w)

YesNoRef(v, withChecked) ==
    LET n == NormalizeRef(v)
    IN  IF n = <<>> THEN <<>>
        ELSE IF IsOneOf(n, {W_yes, W_true, W_1, W_on}) THEN YES
        ELSE IF withChecked /\ IsOneOf(n, {W_checked}) THEN YES
        ELSE IF IsOneOf(n, {W_no, W_false, W_0, W_off}) THEN NO
        ELSE n

HasIsoShape(n) ==
    /\ Len(n) = 10
    /\ n[5] = "-" /\ n[8] = "-"
    /\ {n[1], n[2], n[3], n[4], n[6], n[7], n[9], n[10]} \subseteq Digits

DateRef(v) ==
    LET n == NormalizeRef(v)
    IN  IF HasIsoShape(n)
        THEN <<n[6], n[7], "/", n[9], n[10], "/", n[1], n[2], n[3], n[4]>>
        ELSE n

\* C7: each of the three copies of normalizeValue returns, for every input
\* value, the reference result (array: items converted to strings, trimmed,
\* empty ones dropped, joined by ", "; null and undefined: ""; anything else:
\* its trimmed string form), so the three copies agree.
C7_NormalizeValueAgreesWithReference ==
    ncall \in {"normalizeValue", "normalizeValue_fill", "normalizeValue_server"}
        => nout = NormalizeRef(nv)

\* The spec's example: normalizeValue(["a", "", "b "]) is "a, b".
C7_Witness ==
    /\ ncall = "normalizeValue_server"
    /\ nv = ExampleArray
    /\ nout = <<"a", ",", " ", "b">>

\* C8: toYesNo returns YES for yes/true/1/on (and, in the template-fill copy,
\* checked), NO for no/false/0/off, "" for an empty normalized value, and the
\* normalized value itself otherwise, whatever the letter case.
C8_ToYesNoTable ==
    /\ ncall \in {"toYesNo", "toYesNo_server"} => nout = YesNoRef(nv, FALSE)
    /\ ncall = "toYesNo_fill" => nout = YesNoRef(nv, TRUE)

\* toYesNo("On") is "YES".
C8_Witness ==
    /\ ncall = "toYesNo"
    /\ nv = JsStr(<<"O", "n">>)
    /\ nout = YES

\* C9: formatDate returns MM/DD/YYYY for a normalized value of the shape
\* YYYY-MM-DD and the normalized value itself otherwise; applied to its own
\* output it returns that output.
C9_FormatDateShape ==
    /\ ncall = "formatDate" => nout = DateRef(nv)
    /\ ncall = "formatDate.formatDate" => nout = nprev

\* formatDate("2024-03-05") is "03/05/2024", and stays so when re-applied.
C9_Witness ==
    /\ ncall = "formatDate.formatDate"
    /\ nv = JsStr(<<"2", "0", "2", "4", "-", "0", "3", "-", "0", "5">>)
    /\ nout = <<"0", "3", "/", "0", "5", "/", "2", "0", "2", "4">>

(***************************************************************************)
(* Template Filler (generateApplicationPdfFromTemplate) and the generation *)
(* selection of the server (generateApplicationPdf).                       *)
(***************************************************************************)
\* String.prototype.includes
includes(s, sub) ==
    \E i \in 0..(Len(s) - Len(sub)) : SubSeq(s, i + 1, i + Len(sub)) = sub

Creative == <<"c", "r", "e", "a", "t", "i", "v", "e">>
GoldenAge == <<"g", "o", "l", "d", "e", "n", "-", "a", "g", "e", "-", "a", "s", "s", "i", "s", "t", "e", "d", "-", "l", "i", "v", "i", "n", "g">>

\* path.resolve(p) for one path segment: absolute paths stay, relative ones
\* are taken from the working directory.
resolve(cwd, p) == IF Head(p) = "/" THEN p ELSE cwd \o <<"/">> \o p

\* const templatePath = options.templatePath ? path.resolve(...) : ''
TemplatePathOf(cwd, options) ==
    IF options.templatePath = <<>> THEN <<>> ELSE resolve(cwd, options.templatePath)

IsRejectedPath_creativeOnly(templatePath) ==
    LET normalizedPath == toLowerCase(templatePath)
    IN  includes(normalizedPath, Creative)

\* normalizedPath.includes('creative') || normalizedPath.includes('golden-age-assisted-living')
IsRejectedPath(templatePath) ==
    LET normalizedPath == toLowerCase(templatePath)
    IN  includes(normalizedPath, Creative) \/ includes(normalizedPath, GoldenAge)

\* PDF_FORM_TEMPLATE_PATH of the server: path.join(__dirname, 'pdf-templates',
\* 'nolimitcap-empty-application.pdf')
PDF_FORM_TEMPLATE_PATH(dirname) ==
    dirname \o <<"/", "p", "d", "f", "-", "t", "e", "m", "p", "l", "a", "t", "e", "s", "/", "n", "o", "l", "i", "m", "i", "t", "c", "a", "p", "-", "e", "m", "p", "t", "y", "-", "a", "p", "p", "l", "i", "c", "a", "t", "i", "o", "n", ".", "p", "d", "f">>

\* Directories the server can be installed in.
ServerDirs == {<<"/", "s">>, <<"/", "C", "r", "e", "a", "t", "i", "v", "e">>}

TemplatePaths == {
    <<>>,
    PDF_FORM_TEMPLATE_PATH(<<"/", "s">>),
    <<"t", "/", "a", "p", "p", ".", "p", "d", "f">>,
    <<"/", "t", "/", "C", "r", "e", "a", "t", "i", "v", "e", "-", "a", "p", "p", ".", "p", "d", "f">>,
    <<"/", "t", "/", "G", "o", "l", "d", "e", "n", "-", "A", "g", "e", "-", "A", "s", "s", "i", "s", "t", "e", "d", "-", "L", "i", "v", "i", "n", "g", ".", "p", "d", "f">>
}

WorkingDirs == {<<"/", "a">>, <<"/", "C", "R", "E", "A", "T", "I", "V", "E">>}

\* The form fields a template can hold. A field's kind goes with its name:
\* text fields, one of them with a maximum length, and a check box.
TextFieldNames == {"email", "owner_dob", "notes", "loan_use"}
OtherFieldNames == {"contact_agreement"}
TemplateForms == SUBSET (TextFieldNames \cup OtherFieldNames)

\* The maximum length of the text field loan_use (0: no maximum).
TemplateMaxLength == 3

MaxLengthOf(fieldName) == IF fieldName = "loan_use" THEN TemplateMaxLength ELSE 0

\* Object.keys(buildFieldMappings(record)), the ones the model's templates use.
MappedNames == {"email", "owner_dob", "contact_agreement", "loan_use"}

\* value || "" inside a template literal: falsy values give "".
IsFalsy(v) ==
    \/ v.t \in {"undefined", "null"}
    \/ v.t = "string" /\ v.s = <<>>
    \/ v.t = "number" /\ v.s = <<"0">>
    \/ v.t = "boolean" /\ v.s = W_false

OrEmpty(v) == IF IsFalsy(v) THEN <<>> ELSE String(v)

\* `${normalizeValue(first)} ${normalizeValue(last)}`.trim() of buildFieldMappings
ComposeName_fill(first, last) ==
    trim(normalizeValue_fill(first) \o <<" ">> \o normalizeValue_fill(last))

\* buildFieldMappings(record)[name]
buildFieldMappings(record, name) ==
    CASE name = "email" -> record["email"]
      [] name = "loan_use" -> record["loan_use"]
      [] name = "owner_dob" -> JsStr(formatDate(record["owner_dob"]))
      [] name = "contact_agreement" -> JsStr(toYesNo_fill(record["contact_agreement"]))
      [] name = "legal_business_name" -> record["legal_business_name"]
      [] name = "preferred_contact_name" ->
            JsStr(ComposeName_fill(record["first_name"], record["last_name"]))
      [] name = "owner1_print_name" ->
            JsStr(ComposeName_fill(record["owner_first_name"], record["owner_last_name"]))
      [] name = "owner2_print_name" ->
            JsStr(ComposeName_fill(record["additional_owner_first_name"],
                                   record["additional_owner_last_name"]))
      [] name = "state_of_incorporation" ->
            IF IsFalsy(record["state_of_incorporation"])
            THEN record["business_state"]
            ELSE record["state_of_incorporation"]
      [] name = "business_start_date" -> JsStr(formatDate(record["business_start_date"]))
      [] name = "has_other_financing" -> JsStr(toYesNo_fill(record["has_other_financing"]))

\* setTextFieldIfPresent(form, fieldName, value) returns true: getTextField
\* finds a text field of that name and setText accepts normalizeValue(value)
\* (it throws when the text is longer than the field's maximum length).
setTextFieldIfPresent(form, fieldName, value) ==
    /\ fieldName \in form
    /\ fieldName \in TextFieldNames
    /\ \/ MaxLengthOf(fieldName) = 0
       \/ Len(normalizeValue_fill(value)) <= MaxLengthOf(fieldName)

\* The records handed to the generation.
FillRecords ==
    [email : {JsUndefined, JsStr(<<" ", "a", "@", "b", " ">>)},
     loan_use : {JsStr(<<"a", "b">>), JsArr(<<JsStr(<<"p", "a", "y">>), JsStr(<<"r", "e", "n", "t">>)>>)},
     owner_dob : {JsNull, JsStr(<<"2", "0", "2", "4", "-", "0", "1", "-", "0", "5">>)},
     contact_agreement : {JsStr(<<"o", "n">>)}]

GenOff ==
    /\ gcaller = "off"
    /\ gcwd = <<>>
    /\ grec = <<>>
    /\ gopt = [templatePath |-> <<>>, flatten |-> "absent"]
    /\ gpc = "off"
    /\ glog = <<>>
    /\ gform = {}
    /\ gwritten = <<>>
    /\ gbuf = "none"
    /\ goutcome = "pending"

GenInit ==
    /\ gcaller \in {"server", "direct"}
    /\ gcwd \in WorkingDirs
    /\ grec \in FillRecords
    /\ gopt \in
         IF gcaller = "server"
         THEN {[templatePath |-> PDF_FORM_TEMPLATE_PATH(d), flatten |-> "true"] : d \in ServerDirs}
         ELSE [templatePath : TemplatePaths, flatten : {"true", "false", "absent"}]
    /\ gpc = IF gcaller = "server" THEN "mkdir" ELSE "fill"
    /\ glog = <<>>
    /\ gform = {}
    /\ gwritten = <<>>
    /\ gbuf = "none"
    /\ goutcome = "pending"

Log(events) == glog' = glog \o events

\* generateApplicationPdf rejects: nothing is returned.
Reject ==
    /\ gpc' = "done"
    /\ goutcome' = "rejected"
    /\ gbuf' = "none"

FillThrows_noFallback(events) ==
    /\ Log(events \o <<"fill.throw">>)
    /\ gbuf' = "none"
    /\ gpc' = "done"
    /\ goutcome' = "rejected"

\* A throw inside generateApplicationPdfFromTemplate: caught by the server's
\* try/catch (fall back to the layout), seen as a rejection by a direct caller.
FillThrows(events) ==
    /\ Log(events \o <<"fill.throw">>)
    /\ gbuf' = "none"
    /\ IF gcaller = "server"
       THEN gpc' = "layout" /\ goutcome' = goutcome
       ELSE gpc' = "done" /\ goutcome' = "rejected"

\* await fs.mkdir(GENERATED_PDF_DIR, { recursive: true })
Mkdir ==
    /\ gpc = "mkdir"
    /\ \E ok \in BOOLEAN :
         IF ok
         THEN /\ Log(<<"mkdir">>)
              /\ gpc' = "fill"
              /\ UNCHANGED <<gbuf, goutcome>>
         ELSE /\ Log(<<"mkdir.fail">>)
              /\ Reject
    /\ UNCHANGED <<gcaller, gcwd, grec, gopt, gform, gwritten, nvars, lvars, xvars, zvars>>

\* The filler up to its first await: the path is resolved and, when it is
\* empty, the call throws; otherwise fs.access is awaited.
FillStart ==
    /\ gpc = "fill"
    /\ IF TemplatePathOf(gcwd, gopt) = <<>>
       THEN FillThrows(<<"fill.start">>)
       ELSE /\ Log(<<"fill.start">>)
            /\ gpc' = "fill.access"
            /\ UNCHANGED <<gbuf, goutcome>>
    /\ UNCHANGED <<gcaller, gcwd, grec, gopt, gform, gwritten, nvars, lvars, xvars, zvars>>

FillAccess_noPatternCheck ==
    /\ gpc = "fill.access"
    /\ \E exists \in BOOLEAN :
         IF ~exists
         THEN FillThrows(<<"access.missing">>)
         ELSE /\ Log(<<"access">>)
              /\ gpc' = "fill.read"
              /\ UNCHANGED <<gbuf, goutcome>>
    /\ UNCHANGED <<gcaller, gcwd, grec, gopt, gform, gwritten, nvars, lvars, xvars, zvars>>

\* fileExists resolves; then the path pattern is checked; then readFile starts.
FillAccess ==
    /\ gpc = "fill.access"
    /\ \E exists \in BOOLEAN :
         IF ~exists
         THEN FillThrows(<<"access.missing">>)
         ELSE IF IsRejectedPath(TemplatePathOf(gcwd, gopt))
         THEN FillThrows(<<"access", "pattern.rejected">>)
         ELSE /\ Log(<<"access">>)
              /\ gpc' = "fill.read"
              /\ UNCHANGED <<gbuf, goutcome>>
    /\ UNCHANGED <<gcaller, gcwd, grec, gopt, gform, gwritten, nvars, lvars, xvars, zvars>>

\* await fs.readFile(templatePath)
FillRead ==
    /\ gpc = "fill.read"
    /\ \E ok \in BOOLEAN :
         IF ok
         THEN /\ Log(<<"readFile">>)
              /\ gpc' = "fill.load"
              /\ UNCHANGED <<gbuf, goutcome>>
         ELSE FillThrows(<<"readFile.fail">>)
    /\ UNCHANGED <<gcaller, gcwd, grec, gopt, gform, gwritten, nvars, lvars, xvars, zvars>>

\* await PDFDocument.load(pdfBytes); getForm(); getFields(); the zero-fields
\* check; then embedFont is awaited.
FillLoad ==
    /\ gpc = "fill.load"
    /\ \/ /\ FillThrows(<<"load.fail">>)
          /\ UNCHANGED gform
       \/ \E form \in TemplateForms :
            /\ gform' = form
            /\ IF form = {}
               THEN FillThrows(<<"load", "getForm", "no.fields">>)
               ELSE /\ Log(<<"load", "getForm">>)
                    /\ gpc' = "fill.embed"
                    /\ UNCHANGED <<gbuf, goutcome>>
    /\ UNCHANGED <<gcaller, gcwd, grec, gopt, gwritten, nvars, lvars, xvars, zvars>>

\* options.flatten !== false
Flattens_onlyWhenTrue(options) == options.flatten = "true"

Flattens(options) == options.flatten # "false"

\* embedFont resolves; every mapped name is written where setTextFieldIfPresent
\* succeeds; appearances are regenerated; the form is flattened unless
\* disabled; save is awaited.
FillFields ==
    /\ gpc = "fill.embed"
    /\ LET set == {name \in MappedNames :
                      setTextFieldIfPresent(gform, name, buildFieldMappings(grec, name))}
       IN  /\ gwritten' = [name \in set |->
                              normalizeValue_fill(buildFieldMappings(grec, name))]
           /\ Log(<<"embedFont">> \o [i \in 1..Cardinality(set) |-> "setText"]
                   \o <<"updateFieldAppearances">>
                   \o (IF Flattens(gopt) THEN <<"flatten">> ELSE <<>>))
    /\ gpc' = "fill.save"
    /\ UNCHANGED <<gcaller, gcwd, grec, gopt, gform, gbuf, goutcome, nvars, lvars, xvars, zvars>>

FillSave_thenLayout ==
    /\ gpc = "fill.save"
    /\ \/ FillThrows(<<"save.fail">>)
       \/ /\ Log(<<"save", "fill.return">>)
          /\ gbuf' = "template"
          /\ IF gcaller = "server"
             THEN gpc' = "layout" /\ goutcome' = goutcome
             ELSE gpc' = "done" /\ goutcome' = "resolved"
    /\ UNCHANGED <<gcaller, gcwd, grec, gopt, gform, gwritten, nvars, lvars, xvars, zvars>>

\* await pdfDoc.save(); return Buffer.from(output)
FillSave ==
    /\ gpc = "fill.save"
    /\ \/ FillThrows(<<"save.fail">>)
       \/ /\ Log(<<"save", "fill.return">>)
          /\ gbuf' = "template"
          /\ IF gcaller = "server"
             THEN gpc' = "write" /\ goutcome' = goutcome
             ELSE gpc' = "done" /\ goutcome' = "resolved"
    /\ UNCHANGED <<gcaller, gcwd, grec, gopt, gform, gwritten, nvars, lvars, xvars, zvars>>

\* generateApplicationPdfBuffer up to doc.end(): the logo is read (a failure
\* is caught), the document is built and rendered synchronously.
LayoutStart ==
    /\ gpc = "layout"
    /\ \E logoOk \in BOOLEAN :
         Log(<<"layout.start", IF logoOk THEN "logo.read" ELSE "logo.caught">>
              \o <<"render", "doc.end">>)
    /\ gpc' = "layout.stream"
    /\ UNCHANGED <<gcaller, gcwd, grec, gopt, gform, gwritten, gbuf, goutcome, nvars, lvars, xvars, zvars>>

\* doc.on("end", () => resolve(Buffer.concat(chunks)))
LayoutStreamEnd ==
    /\ gpc = "layout.stream"
    /\ Log(<<"layout.return">>)
    /\ gbuf' = "layout"
    /\ gpc' = "write"
    /\ UNCHANGED <<gcaller, gcwd, grec, gopt, gform, gwritten, goutcome, nvars, lvars, xvars, zvars>>

\* doc.on("error", reject)
LayoutStreamError ==
    /\ gpc = "layout.stream"
    /\ Log(<<"layout.reject">>)
    /\ Reject
    /\ UNCHANGED <<gcaller, gcwd, grec, gopt, gform, gwritten, nvars, lvars, xvars, zvars>>

\* await fs.writeFile(filePath, buffer); return { fileName, filePath, buffer }
WriteFile ==
    /\ gpc = "write"
    /\ \E ok \in BOOLEAN :
         IF ok
         THEN /\ Log(<<"writeFile">>)
              /\ gpc' = "done"
              /\ goutcome' = "resolved"
              /\ UNCHANGED gbuf
         ELSE /\ Log(<<"writeFile.fail">>)
              /\ Reject
    /\ UNCHANGED <<gcaller, gcwd, grec, gopt, gform, gwritten, nvars, lvars, xvars, zvars>>

GenNext ==
    \/ Mkdir
    \/ FillStart
    \/ FillAccess
    \/ FillRead
    \/ FillLoad
    \/ FillFields
    \/ FillSave
    \/ LayoutStart
    \/ LayoutStreamEnd
    \/ LayoutStreamError
    \/ WriteFile

(***************************************************************************)
(* Layout Renderer (generateApplicationPdfBuffer, renderOnePageLayout).    *)
(* Lengths are whole points where the code floors or rounds them.  A font  *)
(* size of a LayoutConfig built at scale num/den is kept as the integer    *)
(* size * 10 * den, so that 7.4 * scale, the floors and the 0.2 steps are  *)
(* exact.                                                                  *)
(***************************************************************************)
\* new PDFDocument({ size: "LETTER" }): 612 x 792 points
PageWidth == 612
PageHeight == 792

Max(a, b) == IF a >= b THEN a ELSE b
Min(a, b) == IF a <= b THEN a ELSE b
CeilDiv(a, b) == (a + b - 1) \div b

REQUIRED_FIELDS == {
    "loan_amount", "funding_timeline", "first_name", "last_name", "contact_number",
    "email", "contact_agreement", "legal_business_name", "business_start_date",
    "business_dba", "industry", "business_address", "business_city", "business_state",
    "business_zip", "business_phone", "legal_entity", "business_tax_id", "credit_score",
    "gross_annual_sales", "avg_monthly_deposits", "avg_daily_balance",
    "state_of_incorporation", "has_other_financing", "has_judgements_liens",
    "has_open_bankruptcies", "seasonal_business", "owner_first_name", "owner_last_name",
    "owner_email", "owner_address", "owner_city", "owner_state", "owner_zip",
    "owner_contact", "owner_dob", "owner_ssn", "owner_ownership", "signature",
    "application_date", "application_agreement"
}

\* markLabel: the label and whether " *" is appended.
markLabel(fieldKey, label, forceRequired) ==
    [text |-> label, star |-> forceRequired \/ fieldKey \in REQUIRED_FIELDS]

\* buildSections: the three sections, each row a sequence of cells.  A cell is
\* [key: the field key, label, from: how the value is derived, span, force:
\* the forceRequired option].
Cell(key, label, from, span, force) ==
    [key |-> key, label |-> label, from |-> from, span |-> span, force |-> force]

BusinessRows == <<
    <<Cell("legal_business_name", "Business Legal Name", "raw", 8, FALSE),
      Cell("business_dba", "Business DBA Name", "raw", 8, FALSE)>>,
    <<Cell("business_address", "Business Address", "raw", 8, FALSE),
      Cell("business_city", "City", "raw", 3, FALSE),
      Cell("business_state", "State", "raw", 2, FALSE),
      Cell("business_zip", "Zip", "raw", 3, FALSE)>>,
    <<Cell("business_phone", "Business Phone", "raw", 4, FALSE),
      Cell("business_website", "Business Website", "raw", 6, FALSE),
      Cell("industry", "Industry", "raw", 6, FALSE)>>,
    <<Cell("first_name", "Preferred Contact", "preferredContact", 4, TRUE),
      Cell("contact_number", "Contact Number", "raw", 4, FALSE),
      Cell("email", "Email", "raw", 8, FALSE)>>,
    <<Cell("legal_entity", "Legal Entity", "raw", 3, FALSE),
      Cell("business_tax_id", "Tax ID / EIN", "raw", 3, FALSE),
      Cell("state_of_incorporation", "State of Incorporation", "raw", 4, FALSE),
      Cell("business_start_date", "Business Start Date", "raw", 3, FALSE),
      Cell("credit_score", "Credit Score", "raw", 3, FALSE)>>,
    <<Cell("loan_amount", "Funding Amount Requesting", "raw", 4, FALSE),
      Cell("funding_timeline", "Funding Timeline", "raw", 4, FALSE),
      Cell("loan_use", "Use of Proceeds", "raw", 8, FALSE)>>,
    <<Cell("gross_annual_sales", "Gross Annual Sales", "raw", 4, FALSE),
      Cell("avg_monthly_deposits", "Avg Monthly Deposits", "raw", 4, FALSE),
      Cell("avg_daily_balance", "Avg Daily Balance", "raw", 4, FALSE),
      Cell("credit_card_processor", "Card Processor", "raw", 4, FALSE)>>,
    <<Cell("has_other_financing", "Other Financing", "yesno", 3, FALSE),
      Cell("outstanding_balance", "Outstanding Balance", "raw", 3, FALSE),
      Cell("funding_company", "Funding Company", "raw", 4, FALSE),
      Cell("has_open_bankruptcies", "Open Bankruptcies", "yesno", 3, FALSE),
      Cell("has_judgements_liens", "Judgements/Liens", "yesno", 3, FALSE)>>,
    <<Cell("seasonal_business", "Seasonal Business", "yesno", 3, FALSE),
      Cell("peak_months", "Peak Months", "raw", 5, FALSE),
      Cell("application_agreement", "Application Agreement", "yesno", 4, FALSE),
      Cell("contact_agreement", "Contact Agreement", "yesno", 4, FALSE)>>
>>

OwnershipRows == <<
    <<Cell("owner_first_name", "Owner #1 Name", "owner1Name", 4, TRUE),
      Cell("owner_email", "Owner #1 Email", "raw", 6, FALSE),
      Cell("owner_ssn", "Owner #1 SSN", "raw", 2, FALSE),
      Cell("owner_dob", "Owner #1 DOB", "raw", 2, FALSE),
      Cell("owner_ownership", "Ownership %", "raw", 2, FALSE)>>,
    <<Cell("owner_address", "Owner #1 Address", "raw", 8, FALSE),
      Cell("owner_city", "City", "raw", 3, FALSE),
      Cell("owner_state", "State", "raw", 2, FALSE),
      Cell("owner_zip", "Zip", "raw", 3, FALSE)>>,
    <<Cell("additional_owner_first_name", "Owner #2 Name", "owner2Name", 4, FALSE),
      Cell("additional_owner_email", "Owner #2 Email", "raw", 6, FALSE),
      Cell("additional_owner_ssn", "Owner #2 SSN", "raw", 2, FALSE),
      Cell("additional_owner_dob", "Owner #2 DOB", "raw", 2, FALSE),
      Cell("additional_owner_ownership", "Owner #2 Own %", "raw", 2, FALSE)>>,
    <<Cell("additional_owner_address", "Owner #2 Address", "raw", 8, FALSE),
      Cell("additional_owner_city", "City", "raw", 3, FALSE),
      Cell("additional_owner_state", "State", "raw", 2, FALSE),
      Cell("additional_owner_zip", "Zip", "raw", 3, FALSE)>>,
    <<Cell("owner_contact", "Owner #1 Phone", "raw", 4, FALSE),
      Cell("additional_owner_contact", "Owner #2 Phone", "raw", 4, FALSE),
      Cell("id", "Application ID", "raw", 8, TRUE)>>
>>

ReferenceRows == <<
    <<Cell("landlord_name_mortgage_company", "Landlord / Mortgage Company", "raw", 8, FALSE),
      Cell("landlord_contact_person", "Contact Person", "raw", 4, FALSE),
      Cell("landlord_phone", "Phone", "raw", 4, FALSE)>>,
    <<Cell("business_trade_reference_2", "Business Trade Reference #2", "raw", 8, FALSE),
      Cell("business_trade_reference_2_contact_person", "Contact Person", "raw", 4, FALSE),
      Cell("business_trade_reference_2_phone", "Phone", "raw", 4, FALSE)>>,
    <<Cell("business_trade_reference_3", "Business Trade Reference #3", "raw", 8, FALSE),
      Cell("business_trade_reference_3_contact_person", "Contact Person", "raw", 4, FALSE),
      Cell("business_trade_reference_3_phone", "Phone", "raw", 4, FALSE)>>
>>

Sections == <<
    [title |-> "BUSINESS INFORMATION", rows |-> BusinessRows],
    [title |-> "OWNERSHIP INFORMATION", rows |-> OwnershipRows],
    [title |-> "REFERENCES", rows |-> ReferenceRows]
>>

\* The keys the renderer reads besides the cells' own.
OtherKeys == {"last_name", "owner_last_name", "additional_owner_last_name", "signature",
              "signature_additional", "application_date", "application_date_additional"}

CellKeys ==
    {Sections[i].rows[j][k].key :
        <<i, j, k>> \in {t \in (1..3) \X (1..9) \X (1..5) :
                            /\ t[2] <= Len(Sections[t[1]].rows)
                            /\ t[3] <= Len(Sections[t[1]].rows[t[2]])}}

Keys == CellKeys \cup OtherKeys

\* `${first || ""} ${last || ""}`.trim()
ComposeName(first, last) == trim(OrEmpty(first) \o <<" ">> \o OrEmpty(last))

\* The value of a cell, as buildSections passes it to field().
CellValue(record, cell) ==
    CASE cell.from = "raw" -> record[cell.key]
      [] cell.from = "yesno" -> JsStr(toYesNo(record[cell.key]))
      [] cell.from = "preferredContact" ->
            JsStr(ComposeName(record["first_name"], record["last_name"]))
      [] cell.from = "owner1Name" ->
            JsStr(ComposeName(record["owner_first_name"], record["owner_last_name"]))
      [] cell.from = "owner2Name" ->
            JsStr(ComposeName(record["additional_owner_first_name"],
                              record["additional_owner_last_name"]))

buildSections_omitsEmptyRows(record) ==
    [i \in 1..Len(Sections) |->
        [title |-> Sections[i].title,
         rows |-> SelectSeq(
                    [j \in 1..Len(Sections[i].rows) |->
                        [k \in 1..Len(Sections[i].rows[j]) |->
                            LET c == Sections[i].rows[j][k]
                            IN  [key |-> c.key,
                                 label |-> markLabel(c.key, c.label, c.force),
                                 value |-> CellValue(record, c),
                                 span |-> c.span]]],
                    LAMBDA row : \E k \in 1..Len(row) : normalizeValue(row[k].value) # <<>>)]]

\* buildSections(record)
buildSections(record) ==
    [i \in 1..Len(Sections) |->
        [title |-> Sections[i].title,
         rows |-> [j \in 1..Len(Sections[i].rows) |->
                    [k \in 1..Len(Sections[i].rows[j]) |->
                        LET c == Sections[i].rows[j][k]
                        IN  [key |-> c.key,
                             label |-> markLabel(c.key, c.label, c.force),
                             value |-> CellValue(record, c),
                             span |-> c.span]]]]]

createLayoutConfig_inverseRowHeight(num, den, showEmptyPlaceholder) ==
    [den |-> den,
     rowHeight |-> Max(14, (23 * den) \div num),
     sectionHeaderHeight |-> Max(11, (15 * num) \div den),
     sectionGap |-> Max(3, (6 * num) \div den),
     labelFontSize |-> Max(52 * den, 64 * num),
     valueFontSize |-> Max(69 * den, 84 * num),
     sectionFontSize |-> Max(72 * den, 87 * num),
     valueOffsetY |-> Max(9, (13 * num) \div den),
     legendFontSize |-> Max(54 * den, 66 * num),
     legendHeight |-> Max(7, (10 * num) \div den),
     authorizationLabelFontSize |-> Max(58 * den, 69 * num),
     authorizationLabelGap |-> Max(8, (10 * num) \div den),
     authorizationTextHeight |-> Max(56, (80 * num) \div den),
     authorizationFontSize |-> Max(65 * den, 74 * num),
     authorizationMinFontSize |-> Max(60 * den, 65 * num),
     authorizationAfterTermsGap |-> Max(3, (5 * num) \div den),
     authorizationLineLabelFontSize |-> Max(60 * den, 70 * num),
     authorizationLineValueFontSize |-> Max(62 * den, 71 * num),
     authorizationLineGap |-> Max(12, (16 * num) \div den),
     authorizationLineBaselineOffset |-> Max(8, (10 * num) \div den),
     authorizationOwnerGap |-> Max(2, (3 * num) \div den),
     authorizationColumnGap |-> Max(8, (12 * num) \div den),
     showEmptyPlaceholder |-> showEmptyPlaceholder]

\* createLayoutConfig(scale, { showEmptyPlaceholder }) at scale = num / den.
\* Font sizes are size * 10 * den.
createLayoutConfig(num, den, showEmptyPlaceholder) ==
    [den |-> den,
     rowHeight |-> Max(14, (23 * num) \div den),
     sectionHeaderHeight |-> Max(11, (15 * num) \div den),
     sectionGap |-> Max(3, (6 * num) \div den),
     labelFontSize |-> Max(52 * den, 64 * num),
     valueFontSize |-> Max(69 * den, 84 * num),
     sectionFontSize |-> Max(72 * den, 87 * num),
     valueOffsetY |-> Max(9, (13 * num) \div den),
     legendFontSize |-> Max(54 * den, 66 * num),
     legendHeight |-> Max(7, (10 * num) \div den),
     authorizationLabelFontSize |-> Max(58 * den, 69 * num),
     authorizationLabelGap |-> Max(8, (10 * num) \div den),
     authorizationTextHeight |-> Max(56, (80 * num) \div den),
     authorizationFontSize |-> Max(65 * den, 74 * num),
     authorizationMinFontSize |-> Max(60 * den, 65 * num),
     authorizationAfterTermsGap |-> Max(3, (5 * num) \div den),
     authorizationLineLabelFontSize |-> Max(60 * den, 70 * num),
     authorizationLineValueFontSize |-> Max(62 * den, 71 * num),
     authorizationLineGap |-> Max(12, (16 * num) \div den),
     authorizationLineBaselineOffset |-> Max(8, (10 * num) \div den),
     authorizationOwnerGap |-> Max(2, (3 * num) \div den),
     authorizationColumnGap |-> Max(8, (12 * num) \div den),
     showEmptyPlaceholder |-> showEmptyPlaceholder]

RECURSIVE SumSeq(_)
SumSeq(xs) == IF xs = <<>> THEN 0 ELSE Head(xs) + SumSeq(Tail(xs))

\* estimateBodyHeight(sections, config)
estimateBodyHeight(sections, config) ==
    LET rowsHeight ==
            SumSeq([i \in 1..Len(sections) |-> Len(sections[i].rows) * config.rowHeight])
        sectionCount == Len(sections)
        authorizationHeight ==
            config.sectionHeaderHeight
              + config.authorizationLabelGap
              + config.authorizationTextHeight
              + config.authorizationAfterTermsGap
              + config.authorizationLineGap * 7
              + config.authorizationOwnerGap * 2
    IN  sectionCount * config.sectionHeaderHeight
          + rowsHeight
          + Max(0, sectionCount - 1) * config.sectionGap
          + config.sectionGap
          + authorizationHeight
          + config.legendHeight
          + 16

\* options.margin || 24 (0 stands for an option that is not given)
MarginOf(options) == IF options.margin = 0 THEN 24 ELSE options.margin

\* Number(options.headerScale || 0.75), in hundredths
HeaderScaleOf(options) == IF options.headerScale = 0 THEN 75 ELSE options.headerScale

\* normalizeValue(options.logoSvg) || WEBSITE_LOGO_SVG is truthy
HasLogo(logoSvg, websiteLogo) ==
    \/ normalizeValue(logoSvg) # <<>>
    \/ (websiteLogo.t = "string" /\ websiteLogo.s # <<>>)

drawLogoHeader_swappedRatio(options, logoSvg, websiteLogo) ==
    LET margin == MarginOf(options)
        availableWidth == PageWidth - margin * 2
    IN  IF HasLogo(logoSvg, websiteLogo)
        THEN LET baseLogoWidth == 250 * HeaderScaleOf(options)
                 logoWidth == Min(baseLogoWidth, (availableWidth - 10) * 100)
                 logoHeight == (logoWidth * 200 + 3000) \div 6000
                 logoY == margin - 5
                 dividerY == logoY + logoHeight + 5
             IN  [kind |-> "logo", y |-> dividerY + 7]
        ELSE LET dividerY == margin + 30
             IN  [kind |-> "text", y |-> dividerY + 6]

\* drawLogoHeader: the header kind and the Y coordinate where the body begins.
drawLogoHeader(options, logoSvg, websiteLogo) ==
    LET margin == MarginOf(options)
        availableWidth == PageWidth - margin * 2
    IN  IF HasLogo(logoSvg, websiteLogo)
        THEN LET baseLogoWidth == 250 * HeaderScaleOf(options)
                 logoWidth == Min(baseLogoWidth, (availableWidth - 10) * 100)
                 \* Math.round((logoWidth * 60) / 200), logoWidth in hundredths
                 logoHeight == (logoWidth * 60 + 10000) \div 20000
                 logoY == margin - 5
                 dividerY == logoY + logoHeight + 5
             IN  [kind |-> "logo", y |-> dividerY + 7]
        ELSE LET dividerY == margin + 30
             IN  [kind |-> "text", y |-> dividerY + 6]

\* renderOnePageLayout: the scale chosen after the header was drawn at y, as
\* the fraction num / den, with the two heights it was computed from.
ResolveScale(options, y, sections) ==
    LET config == createLayoutConfig(1, 1, ~options.emptyFields)
        availableHeight == PageHeight - MarginOf(options) - y
        estimatedHeight == estimateBodyHeight(sections, config)
    IN  IF estimatedHeight > availableHeight
        THEN [num |-> availableHeight, den |-> estimatedHeight,
              availableHeight |-> availableHeight, estimatedHeight |-> estimatedHeight]
        ELSE [num |-> 1, den |-> 1,
              availableHeight |-> availableHeight, estimatedHeight |-> estimatedHeight]

\* renderOnePageLayout: the LayoutConfig chosen after the header was drawn at y.
ResolveConfig(options, y, sections) ==
    LET scale == ResolveScale(options, y, sections)
    IN  createLayoutConfig(scale.num, scale.den, ~options.emptyFields)

(***************************************************************************)
(* Text measurement.  Character widths are the Helvetica advance widths in *)
(* 1/1000 em; a string's width at font size f / (10 * den) points is       *)
(* (sum of widths) * f / (10000 * den) points.                             *)
(***************************************************************************)
CharWidth(c) ==
    CASE c \in {"i", "j", "l"} -> 222
      [] c \in {" ", "f", "t", "I", ",", ".", "/", ":", ";", "\t", "\n"} -> 278
      [] c \in {"-", "r", "(", ")"} -> 333
      [] c \in {"c", "k", "s", "v", "x", "y", "z", "J"} -> 500
      [] c \in {"A", "B", "E", "K", "P", "S", "V", "X", "Y"} -> 667
      [] c \in {"C", "D", "H", "N", "R", "U", "w"} -> 722
      [] c \in {"G", "O", "Q"} -> 778
      [] c \in {"m", "M"} -> 833
      [] c = "W" -> 944
      [] OTHER -> 556

RECURSIVE SumWidths(_)
SumWidths(str) == IF str = <<>> THEN 0 ELSE CharWidth(Head(str)) + SumWidths(Tail(str))

\* doc.widthOfString(str) <= maxWidth at the font size f / (10 * den)
WidthFits(str, f, den, maxWidth) ==
    LET p == SumWidths(str) * f
        k == 10000 * den
    IN  (p \div k < maxWidth) \/ (p \div k = maxWidth /\ p % k = 0)

Ellipsis == <<".", ".", ".">>

\* The while loop of truncateText: drop trailing characters until the text
\* with the ellipsis fits.
RECURSIVE ShortenToFit(_, _, _, _)
ShortenToFit(text, f, den, maxWidth) ==
    IF Len(text) > 0 /\ ~WidthFits(text \o Ellipsis, f, den, maxWidth)
    THEN ShortenToFit(SubSeq(text, 1, Len(text) - 1), f, den, maxWidth)
    ELSE text

\* truncateText(doc, value, maxWidth, emptyFallback) at the current font size
truncateText(f, den, value, maxWidth, emptyFallback) ==
    LET safeValue == normalizeValue(value)
    IN  IF safeValue = <<>> THEN emptyFallback
        ELSE IF maxWidth <= 8 THEN <<>>
        ELSE IF WidthFits(safeValue, f, den, maxWidth) THEN safeValue
        ELSE LET text == ShortenToFit(safeValue, f, den, maxWidth)
             IN  IF text # <<>> THEN text \o Ellipsis ELSE Ellipsis

Dash == <<"-">>

valueOrDash_alwaysDash(value, showEmptyPlaceholder) ==
    LET normalized == normalizeValue(value)
    IN  IF normalized # <<>> THEN normalized ELSE Dash

\* valueOrDash(value, showEmptyPlaceholder)
valueOrDash(value, showEmptyPlaceholder) ==
    LET normalized == normalizeValue(value)
    IN  IF normalized # <<>> THEN normalized
        ELSE IF showEmptyPlaceholder THEN Dash ELSE <<>>

\* cell.span || 1
SpanOf(cell) == IF cell.span = 0 THEN 1 ELSE cell.span

\* Math.round(a / b) for b > 0
RoundDiv(a, b) == (2 * a + b) \div (2 * b)

\* The cells.forEach of drawFieldRow from cell `index` on, currentX given: the
\* drawn cells, each with its left edge, width and the two texts.
RECURSIVE DrawCells(_, _, _, _, _, _, _)
DrawCells(cells, index, currentX, x, width, totalSpan, config) ==
    IF index > Len(cells) THEN <<>>
    ELSE LET cell == cells[index]
             span == SpanOf(cell)
             remainingWidth == x + width - currentX
             cellWidth == IF index = Len(cells)
                          THEN remainingWidth
                          ELSE RoundDiv(width * span, totalSpan)
             inset == 5
             textWidth == Max(10, cellWidth - inset * 2)
             emptyFallback == IF config.showEmptyPlaceholder THEN Dash ELSE <<>>
             text == truncateText(config.valueFontSize, config.den,
                                  JsStr(valueOrDash(cell.value, config.showEmptyPlaceholder)),
                                  textWidth, emptyFallback)
         IN  <<[key |-> cell.key, x |-> currentX, width |-> cellWidth,
                textWidth |-> textWidth, label |-> cell.label, text |-> text]>>
               \o DrawCells(cells, index + 1, currentX + cellWidth, x, width, totalSpan,
                            config)

drawFieldRow_countsCells(x, width, cells, config) ==
    DrawCells(cells, 1, x, x, width, Len(cells), config)

\* drawFieldRow(doc, x, y, width, cells, config): the cells drawn; the row's
\* bottom is y + config.rowHeight.
drawFieldRow(x, width, cells, config) ==
    LET totalSpan == SumSeq([i \in 1..Len(cells) |-> SpanOf(cells[i])])
    IN  DrawCells(cells, 1, x, x, width, totalSpan, config)

\* The width of AUTHORIZATION_TEXT in ems (the sum of its 1282 characters'
\* Helvetica advance widths is 555296 / 1000).
AuthorizationTextEms == 555

\* The number of lines the clause wraps to at font size f / (10 * den) in a
\* column of textWidth points: the full lines its width fills, plus the lines
\* that word wrapping adds.
LinesOf(f, den, textWidth, wrapSlack) ==
    CeilDiv(AuthorizationTextEms * f, 10 * den * textWidth) + wrapSlack

\* The height of one line in 1/(10000 * den) points: the font's line height
\* (1.156 * size for Helvetica) plus lineGap 0.55.
LineHeightOf(f, den) == 1156 * f + 5500 * den

\* doc.heightOfString(text, textOptions) <= maxHeight
HeightFits(f, den, textWidth, wrapSlack, maxHeight) ==
    LinesOf(f, den, textWidth, wrapSlack) <= (maxHeight * 10000 * den) \div LineHeightOf(f, den)

\* The while loop of drawAuthorizationTerms: paragraphFontSize -= 0.2 until
\* the clause fits or the size is no longer above the minimum.
RECURSIVE ShrinkFont(_, _, _, _, _)
ShrinkFont(f, config, textWidth, wrapSlack, maxHeight) ==
    IF f > config.authorizationMinFontSize
    THEN IF HeightFits(f, config.den, textWidth, wrapSlack, maxHeight)
         THEN f
         ELSE ShrinkFont(f - 2 * config.den, config, textWidth, wrapSlack, maxHeight)
    ELSE f

drawAuthorizationTerms_keepsNominal(width, config, wrapSlack) ==
    LET inset == 5
        textWidth == Max(20, width - inset * 2)
        maxHeight == config.authorizationTextHeight
        unit == 10000 * config.den
        paragraphFontSize == config.authorizationFontSize
        fits == HeightFits(paragraphFontSize, config.den, textWidth, wrapSlack, maxHeight)
        used == IF fits
                THEN LinesOf(paragraphFontSize, config.den, textWidth, wrapSlack)
                        * LineHeightOf(paragraphFontSize, config.den)
                ELSE maxHeight * unit
    IN  [fontSize |-> paragraphFontSize,
         ellipsis |-> ~fits,
         height |-> maxHeight,
         points |-> config.authorizationLabelGap + used \div unit
                      + config.authorizationAfterTermsGap,
         rest |-> used % unit]

\* drawAuthorizationTerms(doc, x, y, width, text, config): the font size
\* used, whether the clause is cut with an ellipsis, and the height added
\* below y: whole points and the rest in 1/(10000 * den) points.
drawAuthorizationTerms(width, config, wrapSlack) ==
    LET inset == 5
        textWidth == Max(20, width - inset * 2)
        maxHeight == config.authorizationTextHeight
        unit == 10000 * config.den
        paragraphFontSize ==
            ShrinkFont(config.authorizationFontSize, config, textWidth, wrapSlack, maxHeight)
        fits == HeightFits(paragraphFontSize, config.den, textWidth, wrapSlack, maxHeight)
        used == IF fits
                THEN LinesOf(paragraphFontSize, config.den, textWidth, wrapSlack)
                        * LineHeightOf(paragraphFontSize, config.den)
                ELSE maxHeight * unit
    IN  [fontSize |-> paragraphFontSize,
         ellipsis |-> ~fits,
         height |-> maxHeight,
         points |-> config.authorizationLabelGap + used \div unit
                      + config.authorizationAfterTermsGap,
         rest |-> used % unit]

(***************************************************************************)
(* One render: generateApplicationPdfBuffer(record, options).              *)
(***************************************************************************)
\* Bounds of the render inputs.
MaxTextLen == 12
MaxWrapSlack == 1

LongText == [i \in 1..MaxTextLen |-> "W"]

EmptyRecord == [k \in Keys |-> JsUndefined]
FullRecord == [k \in Keys |-> JsStr(LongText)]

ProbeKeys == {"legal_business_name", "has_other_financing", "first_name", "last_name",
              "owner_dob", "additional_owner_last_name"}

ProbeValues == {JsStr(<<>>), JsStr(<<" ", " ">>), JsNull, JsArr(<<>>),
                JsStr(<<"O", "n">>), JsStr(LongText), JsNum(<<"0">>)}

BaseValues == {JsUndefined, JsStr(<<"A", "c", "m", "e">>)}

ProbeRecords ==
    {[k \in Keys |-> IF k = pk THEN pv ELSE base] :
        pk \in ProbeKeys, pv \in ProbeValues, base \in BaseValues}

Records == {EmptyRecord, FullRecord} \cup ProbeRecords

\* The options generateApplicationPdf passes (server) and the ones the two
\* generator scripts pass; margin and headerScale 0 stand for "not given".
ServerOptions == [margin |-> 24, headerScale |-> 75, emptyFields |-> FALSE, logoPath |-> TRUE]
ScriptOptions == [margin |-> 24, headerScale |-> 75, emptyFields |-> TRUE, logoPath |-> TRUE]
CallerOptions == {ServerOptions, ScriptOptions}

Margins == {0, 24, 36, 72, 100}
HeaderScales == {0, 75, 100}

AnyOptions ==
    [margin : Margins, headerScale : HeaderScales, emptyFields : BOOLEAN, logoPath : BOOLEAN]

SvgMarkup == JsStr(<<"<", "s", "v", "g", "/", ">">>)

\* websiteLogo: WEBSITE_LOGO_SVG (null when the file could not be read at
\* load time); logoFile: what reading options.logoPath gives (null: it throws);
\* wrapSlack: the lines word wrapping adds to the clause.
Environments ==
    [websiteLogo : {JsNull, SvgMarkup},
     logoFile : {JsNull, SvgMarkup, JsStr(<<" ">>)},
     wrapSlack : 0..MaxWrapSlack]

NoConfig == createLayoutConfig(1, 1, TRUE)
NoAuth == [fontSize |-> 0, ellipsis |-> FALSE]
NoDoc == [creationDate |-> -1, content |-> <<>>]

LayOff ==
    /\ lrec = <<>>
    /\ lopt = ServerOptions
    /\ lenv = [websiteLogo |-> JsNull, logoFile |-> JsNull, wrapSlack |-> 0]
    /\ lpc = "off"
    /\ llogo = JsNull
    /\ lhead = "none"
    /\ ly = 0
    /\ lyfrac = 0
    /\ lconfig = NoConfig
    /\ lsec = 0
    /\ lrow = 0
    /\ ldrawn = <<>>
    /\ lauth = NoAuth
    /\ lpages = 0
    /\ lnow = 0
    /\ ldoc = NoDoc
    /\ lfirst = NoDoc

LayInit ==
    /\ \/ lrec \in Records /\ lopt \in CallerOptions
       \/ lrec \in {EmptyRecord, FullRecord} /\ lopt \in AnyOptions
    /\ lenv \in Environments
    /\ lpc = "start"
    /\ llogo = JsNull
    /\ lhead = "none"
    /\ ly = 0
    /\ lyfrac = 0
    /\ lconfig = NoConfig
    /\ lsec = 0
    /\ lrow = 0
    /\ ldrawn = <<>>
    /\ lauth = NoAuth
    /\ lpages = 0
    /\ lnow = 0
    /\ ldoc = NoDoc
    /\ lfirst = NoDoc

\* A drawing operation is written to the document.
Draws(item) == ldoc' = [ldoc EXCEPT !.content = Append(@, item)]

ContentX == MarginOf(lopt)
ContentWidth == PageWidth - MarginOf(lopt) * 2

LReadLogo_propagates ==
    /\ lpc = "start"
    /\ IF lopt.logoPath /\ lenv.logoFile.t # "string"
       THEN /\ lpc' = "failed"
            /\ UNCHANGED <<llogo, lpages, ldoc>>
       ELSE /\ llogo' = IF lopt.logoPath THEN lenv.logoFile ELSE lenv.websiteLogo
            /\ lpages' = 1
            /\ ldoc' = [creationDate |-> lnow, content |-> <<>>]
            /\ lpc' = "header"
    /\ UNCHANGED <<lrec, lopt, lenv, lnow, lfirst, lhead, ly, lyfrac, lconfig, lsec, lrow, ldrawn, lauth,
                   nvars, gvars, xvars, zvars>>

\* generateApplicationPdfBuffer: the logo is read (a failure is caught) and
\* the one-page document is created.
LReadLogo ==
    /\ lpc = "start"
    /\ llogo' = IF lopt.logoPath /\ lenv.logoFile.t = "string"
                THEN lenv.logoFile
                ELSE lenv.websiteLogo
    /\ lpages' = 1
    /\ lpc' = "header"
    /\ ldoc' = [creationDate |-> lnow, content |-> <<>>]
    /\ UNCHANGED <<lrec, lopt, lenv, lnow, lfirst, lhead, ly, lyfrac, lconfig, lsec, lrow, ldrawn, lauth,
                   nvars, gvars, xvars, zvars>>

\* let y = drawLogoHeader(doc, options)
LDrawHeader ==
    /\ lpc = "header"
    /\ LET h == drawLogoHeader(lopt, llogo, lenv.websiteLogo)
       IN  lhead' = h.kind /\ ly' = h.y
    /\ lpc' = "config"
    /\ Draws([op |-> "header", kind |-> lhead', y |-> ly'])
    /\ UNCHANGED <<lrec, lopt, lenv, lnow, lfirst, llogo, lyfrac, lconfig, lsec, lrow, ldrawn, lauth,
                   lpages, nvars, gvars, xvars, zvars>>

\* buildSections, createLayoutConfig(1), estimateBodyHeight and the rescale
LResolveConfig ==
    /\ lpc = "config"
    /\ lconfig' = ResolveConfig(lopt, ly, buildSections(lrec))
    /\ lpc' = "legend"
    /\ UNCHANGED ldoc
    /\ UNCHANGED <<lrec, lopt, lenv, lnow, lfirst, llogo, lhead, ly, lyfrac, lsec, lrow, ldrawn, lauth,
                   lpages, nvars, gvars, xvars, zvars>>

\* y = drawLegend(...)
LDrawLegend ==
    /\ lpc = "legend"
    /\ ly' = ly + lconfig.legendHeight
    /\ lpc' = "section"
    /\ lsec' = 1
    /\ lrow' = 0
    /\ Draws([op |-> "legend", y |-> ly, fontSize |-> lconfig.legendFontSize])
    /\ UNCHANGED <<lrec, lopt, lenv, lnow, lfirst, llogo, lhead, lyfrac, lconfig, ldrawn, lauth, lpages,
                   nvars, gvars, xvars, zvars>>

\* y = drawSectionHeader(...) of section lsec
LDrawSectionHeader ==
    /\ lpc = "section"
    /\ lrow = 0
    /\ ly' = ly + lconfig.sectionHeaderHeight
    /\ lrow' = 1
    /\ Draws([op |-> "sectionHeader", y |-> ly, title |-> Sections[lsec].title,
              fontSize |-> lconfig.sectionFontSize])
    /\ UNCHANGED <<lrec, lopt, lenv, lnow, lfirst, lpc, llogo, lhead, lyfrac, lconfig, lsec, ldrawn, lauth,
                   lpages, nvars, gvars, xvars, zvars>>

\* y = drawFieldRow(...) of row lrow; after a section's last row the section
\* gap is added (between sections by the loop, after the last one by the
\* statement that follows the loop).
LDrawFieldRow ==
    /\ lpc = "section"
    /\ lrow >= 1
    /\ LET sections == buildSections(lrec)
           rows == sections[lsec].rows
       IN  /\ ldrawn' = drawFieldRow(ContentX, ContentWidth, rows[lrow], lconfig)
           /\ IF lrow < Len(rows)
              THEN /\ ly' = ly + lconfig.rowHeight
                   /\ lrow' = lrow + 1
                   /\ UNCHANGED <<lsec, lpc>>
              ELSE IF lsec < Len(sections)
              THEN /\ ly' = ly + lconfig.rowHeight + lconfig.sectionGap
                   /\ lsec' = lsec + 1
                   /\ lrow' = 0
                   /\ UNCHANGED lpc
              ELSE /\ ly' = ly + lconfig.rowHeight + lconfig.sectionGap
                   /\ lpc' = "auth"
                   /\ UNCHANGED <<lsec, lrow>>
    /\ Draws([op |-> "row", y |-> ly, height |-> lconfig.rowHeight, cells |-> ldrawn'])
    /\ UNCHANGED <<lrec, lopt, lenv, lnow, lfirst, llogo, lhead, lyfrac, lconfig, lauth, lpages, nvars,
                   gvars, xvars, zvars>>

\* drawAuthorizationSection: the AUTHORIZATION section header
LDrawAuthorizationHeader ==
    /\ lpc = "auth"
    /\ ly' = ly + lconfig.sectionHeaderHeight
    /\ lpc' = "auth.terms"
    /\ Draws([op |-> "sectionHeader", y |-> ly, title |-> "AUTHORIZATION",
              fontSize |-> lconfig.sectionFontSize])
    /\ UNCHANGED <<lrec, lopt, lenv, lnow, lfirst, llogo, lhead, lyfrac, lconfig, lsec, lrow, ldrawn,
                   lauth, lpages, nvars, gvars, xvars, zvars>>

\* currentY = drawAuthorizationTerms(...)
LDrawAuthorizationTerms ==
    /\ lpc = "auth.terms"
    /\ LET t == drawAuthorizationTerms(ContentWidth, lconfig, lenv.wrapSlack)
       IN  /\ lauth' = [fontSize |-> t.fontSize, ellipsis |-> t.ellipsis]
           /\ ly' = ly + t.points
           /\ lyfrac' = t.rest
    /\ lpc' = "auth.lines"
    /\ Draws([op |-> "terms", y |-> ly, clause |-> lauth'])
    /\ UNCHANGED <<lrec, lopt, lenv, lnow, lfirst, llogo, lhead, lconfig, lsec, lrow, ldrawn, lpages,
                   nvars, gvars, xvars, zvars>>

\* The three owner double lines, the owner gap and the EIN / website line
LDrawAuthorizationLines ==
    /\ lpc = "auth.lines"
    /\ ly' = ly + 3 * lconfig.authorizationLineGap + lconfig.authorizationOwnerGap
                + lconfig.authorizationLineGap
    /\ lpc' = "footer"
    /\ Draws([op |-> "lines", y |-> ly, gap |-> lconfig.authorizationLineGap])
    /\ UNCHANGED <<lrec, lopt, lenv, lnow, lfirst, llogo, lhead, lyfrac, lconfig, lsec, lrow, ldrawn,
                   lauth, lpages, nvars, gvars, xvars, zvars>>

\* The footer at page height - bottom margin - 12, then doc.end()
LDrawFooter ==
    /\ lpc = "footer"
    /\ lpc' = "stream"
    /\ Draws([op |-> "footer", y |-> PageHeight - MarginOf(lopt) - 12])
    /\ UNCHANGED <<lrec, lopt, lenv, lnow, lfirst, llogo, lhead, ly, lyfrac, lconfig, lsec, lrow, ldrawn,
                   lauth, lpages, nvars, gvars, xvars, zvars>>

\* doc.on("end", () => resolve(Buffer.concat(chunks)))
LStreamEnd ==
    /\ lpc = "stream"
    /\ lpc' = "done"
    /\ UNCHANGED ldoc
    /\ UNCHANGED <<lrec, lopt, lenv, lnow, lfirst, llogo, lhead, ly, lyfrac, lconfig, lsec, lrow, ldrawn,
                   lauth, lpages, nvars, gvars, xvars, zvars>>

\* doc.on("error", reject)
LStreamError ==
    /\ lpc = "stream"
    /\ lpc' = "failed"
    /\ UNCHANGED ldoc
    /\ UNCHANGED <<lrec, lopt, lenv, lnow, lfirst, llogo, lhead, ly, lyfrac, lconfig, lsec, lrow, ldrawn,
                   lauth, lpages, nvars, gvars, xvars, zvars>>

LayNext ==
    \/ LReadLogo
    \/ LDrawHeader
    \/ LResolveConfig
    \/ LDrawLegend
    \/ LDrawSectionHeader
    \/ LDrawFieldRow
    \/ LDrawAuthorizationHeader
    \/ LDrawAuthorizationTerms
    \/ LDrawAuthorizationLines
    \/ LDrawFooter
    \/ LStreamEnd
    \/ LStreamError

\* How far the wall clock is followed.
MaxClock == 1

\* A second passes between two calls. (The renderer looks at the clock only
\* when it creates a document: pdfkit stamps CreationDate with new Date().)
LTick ==
    /\ lpc = "done"
    /\ lfirst = NoDoc
    /\ lnow < MaxClock
    /\ lnow' = lnow + 1
    /\ UNCHANGED <<lrec, lopt, lenv, lpc, llogo, lhead, ly, lyfrac, lconfig, lsec, lrow,
                   ldrawn, lauth, lpages, ldoc, lfirst, nvars, gvars, xvars, zvars>>

\* generateApplicationPdfBuffer is called again with the same record and
\* options: every local of the call starts afresh; the first call's buffer is
\* kept for comparison.
LCallAgain ==
    /\ lpc = "done"
    /\ lfirst = NoDoc
    /\ lfirst' = ldoc
    /\ lpc' = "start"
    /\ llogo' = JsNull
    /\ lhead' = "none"
    /\ ly' = 0
    /\ lyfrac' = 0
    /\ lconfig' = NoConfig
    /\ lsec' = 0
    /\ lrow' = 0
    /\ ldrawn' = <<>>
    /\ lauth' = NoAuth
    /\ lpages' = 0
    /\ ldoc' = NoDoc
    /\ UNCHANGED <<lrec, lopt, lenv, lnow, nvars, gvars, xvars, zvars>>

TwiceNext ==
    \/ LayNext
    \/ LTick
    \/ LCallAgain

\* The arguments of the calls that are repeated.
TwiceOptions ==
    CallerOptions \cup {[margin |-> 100, headerScale |-> 0, emptyFields |-> FALSE,
                         logoPath |-> FALSE]}

LayInitTwice ==
    /\ LayInit
    /\ lrec \in {EmptyRecord, FullRecord}
    /\ lopt \in TwiceOptions

(***************************************************************************)
(* Concurrent calls of generateApplicationPdfBuffer.  A call renders its   *)
(* document synchronously up to doc.end(); the document's stream then      *)
(* hands its chunks to the call's "data" listener and signals "end", each  *)
(* at a later turn of the event loop, so that the turns of different calls *)
(* interleave freely.                                                      *)
(***************************************************************************)
\* The number of concurrent calls and of chunks a document is emitted in.
MaxCalls == 2
MaxChunks == 3

Calls == 1..MaxCalls

ConcRecords == {"A", "B", "C"}

\* The chunks the document of call i, rendered from record, emits in order.
ChunksOf(i, record) == [k \in 1..MaxChunks |-> [doc |-> i, record |-> record, part |-> k]]

\* Buffer.concat(chunks)
Concat(chunks) == chunks

ConcOff == calls = <<>>

ConcInit ==
    calls \in [Calls -> {[pc |-> "start", record |-> r, stream |-> <<>>, chunks |-> <<>>,
                          buffer |-> <<>>] : r \in ConcRecords}]

\* new PDFDocument, const chunks = [], the listeners, renderOnePageLayout,
\* doc.end(): all in one turn.
CRender(i) ==
    /\ calls[i].pc = "start"
    /\ calls' = [calls EXCEPT ![i].pc = "streaming",
                              ![i].stream = ChunksOf(i, calls[i].record),
                              ![i].chunks = <<>>]
    /\ UNCHANGED <<nvars, gvars, lvars, svars, avars, kvars, mvars, zvars>>

CData_sharedChunks(i) ==
    /\ calls[i].pc = "streaming"
    /\ calls[i].stream # <<>>
    /\ calls' = [calls EXCEPT ![1].chunks = Append(calls[1].chunks, Head(calls[i].stream)),
                              ![i].stream = Tail(calls[i].stream)]
    /\ UNCHANGED <<nvars, gvars, lvars, svars, avars, kvars, mvars, zvars>>

\* doc.on("data", (chunk) => chunks.push(chunk))
CData(i) ==
    /\ calls[i].pc = "streaming"
    /\ calls[i].stream # <<>>
    /\ calls' = [calls EXCEPT ![i].chunks = Append(calls[i].chunks, Head(calls[i].stream)),
                              ![i].stream = Tail(calls[i].stream)]
    /\ UNCHANGED <<nvars, gvars, lvars, svars, avars, kvars, mvars, zvars>>

\* doc.on("end", () => resolve(Buffer.concat(chunks)))
CEnd(i) ==
    /\ calls[i].pc = "streaming"
    /\ calls[i].stream = <<>>
    /\ calls' = [calls EXCEPT ![i].pc = "resolved",
                              ![i].buffer = Concat(calls[i].chunks)]
    /\ UNCHANGED <<nvars, gvars, lvars, svars, avars, kvars, mvars, zvars>>

ConcNext ==
    \E i \in Calls :
        \/ CRender(i)
        \/ CData(i)
        \/ CEnd(i)

\* The buffer a call with this record returns when it runs alone.
AloneBuffer(i, record) == Concat(ChunksOf(i, record))

\* C15: Under every interleaving of the calls' turns, a call that resolved
\* holds exactly the bytes of its own document, the ones it returns when run
\* alone, and no chunk list ever holds a chunk of another call's document.
C15_OwnBuffer ==
    \A i \in DOMAIN calls :
        /\ \A k \in DOMAIN calls[i].chunks : calls[i].chunks[k].doc = i
        /\ calls[i].pc = "resolved" =>
              /\ calls[i].buffer = AloneBuffer(i, calls[i].record)
              /\ \A k \in DOMAIN calls[i].buffer : calls[i].buffer[k].doc = i

C15_Witness ==
    /\ calls # <<>>
    /\ calls[1].pc = "resolved"
    /\ calls[2].pc = "streaming"
    /\ Len(calls[2].chunks) = 1
    /\ calls[1].record # calls[2].record
    /\ calls[1].buffer = AloneBuffer(1, calls[1].record)

(***************************************************************************)
(* Local JSON storage: the fall-back of POST /api/contact and POST         *)
(* /api/apply (readJsonArray, push, writeJsonArray).  Every await is a     *)
(* point where another request's turn can run.                             *)
(***************************************************************************)
MaxRequests == 2

Requests == 1..MaxRequests

\* CONTACTS_FILE, APPLICATIONS_FILE, CLIENTS_FILE in the order of the
\* defaults of ensureDataStorage.
StoreFiles == <<"contacts.json", "applications.json", "clients.json">>

Missing == "missing"

\* The file a request of this kind stores its record in.
FileOf(kind) == IF kind = "contact" THEN "contacts.json" ELSE "applications.json"

StoreOff ==
    /\ sfiles = <<>>
    /\ sreq = <<>>

StoreInit ==
    /\ \E state \in {Missing, "present"} :
          sfiles = [f \in {StoreFiles[k] : k \in 1..3} |->
                        IF state = Missing THEN Missing ELSE <<>>]
    /\ sreq \in [Requests -> {[kind |-> kd, pc |-> "read.ensure", k |-> 1, array |-> <<>>,
                               response |-> "none"] : kd \in {"contact", "apply"}}]

\* The position after ensureDataStorage has dealt with file k.
AfterFile(r) ==
    LET phase == IF r.pc \in {"read.ensure", "read.create"} THEN "read" ELSE "write"
    IN  IF r.k < Len(StoreFiles)
        THEN [r EXCEPT !.pc = IF phase = "read" THEN "read.ensure" ELSE "write.ensure",
                       !.k = r.k + 1]
        ELSE [r EXCEPT !.pc = phase, !.k = 1]

\* ensureDataStorage: await fs.access(filePath) of the k-th default
SEnsureAccess(i) ==
    /\ sreq[i].pc \in {"read.ensure", "write.ensure"}
    /\ IF sfiles[StoreFiles[sreq[i].k]] = Missing
       THEN sreq' = [sreq EXCEPT ![i].pc = IF sreq[i].pc = "read.ensure"
                                            THEN "read.create" ELSE "write.create"]
       ELSE sreq' = [sreq EXCEPT ![i] = AfterFile(sreq[i])]
    /\ UNCHANGED <<sfiles, nvars, gvars, lvars, cvars, avars, kvars, mvars, zvars>>

\* ensureDataStorage: await fs.writeFile(filePath, '[]', 'utf8') after the
\* access failed
SEnsureCreate(i) ==
    /\ sreq[i].pc \in {"read.create", "write.create"}
    /\ sfiles' = [sfiles EXCEPT ![StoreFiles[sreq[i].k]] = <<>>]
    /\ sreq' = [sreq EXCEPT ![i] = AfterFile(sreq[i])]
    /\ UNCHANGED <<nvars, gvars, lvars, cvars, avars, kvars, mvars, zvars>>

\* readJsonArray: await fs.readFile, JSON.parse ([] when that throws); then
\* the handler pushes its record and calls writeJsonArray.
SRead(i) ==
    /\ sreq[i].pc = "read"
    /\ LET file == sfiles[FileOf(sreq[i].kind)]
           parsed == IF file = Missing THEN <<>> ELSE file
       IN  sreq' = [sreq EXCEPT ![i].array = Append(parsed, i),
                                ![i].pc = "write.ensure",
                                ![i].k = 1]
    /\ UNCHANGED <<sfiles, nvars, gvars, lvars, cvars, avars, kvars, mvars, zvars>>

\* writeJsonArray: await fs.writeFile(filePath, JSON.stringify(records)); the
\* handler answers ok: true, storage: 'local', or 500 when the write threw.
SWrite(i) ==
    /\ sreq[i].pc = "write"
    /\ \E ok \in BOOLEAN :
         IF ok
         THEN /\ sfiles' = [sfiles EXCEPT ![FileOf(sreq[i].kind)] = sreq[i].array]
              /\ sreq' = [sreq EXCEPT ![i].pc = "done", ![i].response = "ok.local"]
         ELSE /\ sreq' = [sreq EXCEPT ![i].pc = "done", ![i].response = "error.500"]
              /\ UNCHANGED sfiles
    /\ UNCHANGED <<nvars, gvars, lvars, cvars, avars, kvars, mvars, zvars>>

StoreNext ==
    \E i \in Requests :
        \/ SEnsureAccess(i)
        \/ SEnsureCreate(i)
        \/ SRead(i)
        \/ SWrite(i)

Stored(i) ==
    LET file == sfiles[FileOf(sreq[i].kind)]
    IN  file # Missing /\ \E k \in DOMAIN file : file[k] = i

AllAnswered == \A i \in DOMAIN sreq : sreq[i].pc = "done"

\* C16: With local JSON storage in use, once every request has completed,
\* the record of every request that was answered ok: true with storage
\* 'local' is in contacts.json / applications.json, whatever the interleaving
\* of the requests.
C16_NoRecordLost ==
    (sreq # <<>> /\ AllAnswered) =>
        \A i \in DOMAIN sreq : sreq[i].response = "ok.local" => Stored(i)

C16_Witness ==
    /\ sreq # <<>>
    /\ AllAnswered
    /\ \A i \in DOMAIN sreq : sreq[i].kind = "apply" /\ sreq[i].response = "ok.local"
    /\ sfiles["applications.json"] = <<2, 1>>

(***************************************************************************)
(* POST /api/apply: validation, CRM, PDF generation, S3 upload, e-mail,    *)
(* Supabase and the local fall-back, in the order of the handler.          *)
(***************************************************************************)
\* What a provider does when it is called: it returns 'skipped' when it is
\* not configured, and catches the error of a failed send.
ProviderStates == {"unconfigured", "failing", "working"}

ApplyEnvs ==
    [recipients : BOOLEAN, sendgrid : ProviderStates, smtp : ProviderStates,
     ses : ProviderStates]

ApplyBodies ==
    [first_name : {JsUndefined, JsStr(<<"A">>)},
     last_name : {JsStr(<<" ">>), JsStr(<<"L">>)},
     email : {JsUndefined, JsStr(<<"a", "@", "b">>)}]

NoStatuses == [crmStatus |-> "none", pdfStatus |-> "none", emailStatus |-> "none"]

ApplyOff == apply = <<>>

ApplyInit ==
    apply \in [body : ApplyBodies, env : ApplyEnvs, pc : {"validate"},
               record : {NoStatuses}, pdfData : {"none"}, pdfFile : {FALSE},
               s3 : {"none"}, attempts : {<<>>}, emailProvider : {"none"},
               local : {"none"},
               response : {"none"}, reported : {NoStatuses}]

\* !firstName || !lastName || !email
BodyComplete(body) ==
    /\ normalizeValue_server(body.first_name) # <<>>
    /\ normalizeValue_server(body.last_name) # <<>>
    /\ normalizeValue_server(body.email) # <<>>

\* sendEmailViaSendGrid, sendEmailViaSmtp, sendEmailViaSes
sendEmailVia(provider) ==
    CASE provider = "unconfigured" -> "skipped"
      [] provider = "failing" -> "failed"
      [] provider = "working" -> "sent"

\* One call of a provider function, with or without the attachment.
Attempted(provider, attachment) ==
    [apply EXCEPT !.attempts =
        Append(@, [provider |-> provider, attachment |-> attachment,
                   status |-> sendEmailVia(apply.env[provider])])]

\* the body of the handler after emailApplicationPdf returned
MailResult(from, status, provider) ==
    apply' = [from EXCEPT !.record.pdfStatus = "generated",
                           !.record.emailStatus = status,
                           !.emailProvider = provider,
                           !.pc = "supabase"]

\* the catch of the handler's try
PdfCatch ==
    apply' = [apply EXCEPT !.record.pdfStatus = "failed",
                           !.record.emailStatus = "failed",
                           !.pc = "supabase"]

AUnchanged == UNCHANGED <<nvars, gvars, lvars, cvars, svars, kvars, mvars, zvars>>

AValidate ==
    /\ apply # <<>>
    /\ apply.pc = "validate"
    /\ IF BodyComplete(apply.body)
       THEN apply' = [apply EXCEPT !.pc = "crm"]
       ELSE apply' = [apply EXCEPT !.pc = "done", !.response = "error.400"]
    /\ AUnchanged

\* sendToCrm: 'skipped' without a token, else 'sent', 'failed' or 'error'
ACrm ==
    /\ apply # <<>>
    /\ apply.pc = "crm"
    /\ \E status \in {"skipped", "sent", "failed", "error"} :
          apply' = [apply EXCEPT !.record.crmStatus = status, !.pc = "pdf"]
    /\ AUnchanged

\* generateApplicationPdf: mkdir, the template fill or the layout fall-back,
\* writeFile; any of them can throw.
AGeneratePdf ==
    /\ apply # <<>>
    /\ apply.pc = "pdf"
    /\ \E outcome \in {"mkdir.throws", "render.throws", "writeFile.throws", "returned"} :
          IF outcome = "returned"
          THEN apply' = [apply EXCEPT !.pdfData = "returned", !.pdfFile = TRUE,
                                      !.pc = "s3"]
          ELSE PdfCatch
    /\ AUnchanged

AUploadS3 ==
    /\ apply # <<>>
    /\ apply.pc = "s3"
    /\ \E status \in {"skipped", "uploaded", "failed"} :
          apply' = [apply EXCEPT !.s3 = status, !.pc = "email"]
    /\ AUnchanged

\* emailApplicationPdf: no recipients
AEmailRecipients ==
    /\ apply # <<>>
    /\ apply.pc = "email"
    /\ IF apply.env.recipients
       THEN apply' = [apply EXCEPT !.pc = "email.sendgrid"]
       ELSE MailResult(apply, "skipped", "none")
    /\ AUnchanged

\* sendEmailViaSendGrid(..., attachments)
AEmailSendGrid ==
    /\ apply # <<>>
    /\ apply.pc = "email.sendgrid"
    /\ IF sendEmailVia(apply.env.sendgrid) = "sent"
       THEN MailResult(Attempted("sendgrid", TRUE), "sent", "sendgrid")
       ELSE apply' = [Attempted("sendgrid", TRUE) EXCEPT !.pc = "email.smtp"]
    /\ AUnchanged

AEmailSmtp_triesOn ==
    /\ apply # <<>>
    /\ apply.pc = "email.smtp"
    /\ apply' = [Attempted("smtp", TRUE) EXCEPT !.pc = "email.ses"]
    /\ AUnchanged

\* sendEmailViaSmtp(..., attachments)
AEmailSmtp ==
    /\ apply # <<>>
    /\ apply.pc = "email.smtp"
    /\ IF sendEmailVia(apply.env.smtp) = "sent"
       THEN MailResult(Attempted("smtp", TRUE), "sent", "smtp")
       ELSE apply' = [Attempted("smtp", TRUE) EXCEPT !.pc = "email.ses"]
    /\ AUnchanged

AEmailSes_throws ==
    /\ apply # <<>>
    /\ apply.pc = "email.ses"
    /\ IF sendEmailVia(apply.env.ses) = "sent"
       THEN MailResult(Attempted("ses", FALSE), "sent", "ses")
       ELSE PdfCatch
    /\ AUnchanged

\* emailApplicationPdf: the last provider, called with [] for the
\* attachments, then 'All email providers failed'
AEmailSes ==
    /\ apply # <<>>
    /\ apply.pc = "email.ses"
    /\ IF sendEmailVia(apply.env.ses) = "sent"
       THEN MailResult(Attempted("ses", FALSE), "sent", "ses")
       ELSE MailResult(Attempted("ses", FALSE), "failed", "none")
    /\ AUnchanged

\* saveApplicationToSupabase, and the response with storage: 'supabase'
ASupabase ==
    /\ apply # <<>>
    /\ apply.pc = "supabase"
    /\ \E status \in {"skipped", "saved", "failed"} :
          IF status = "saved"
          THEN apply' = [apply EXCEPT !.pc = "done", !.response = "ok.supabase",
                                      !.reported = apply.record]
          ELSE apply' = [apply EXCEPT !.pc = "local"]
    /\ AUnchanged

\* readJsonArray, push, writeJsonArray; 500 when they throw, else the
\* response with storage: 'local'
AStoreLocal ==
    /\ apply # <<>>
    /\ apply.pc = "local"
    /\ \E ok \in BOOLEAN :
          IF ok
          THEN apply' = [apply EXCEPT !.pc = "done", !.local = "written",
                                      !.response = "ok.local",
                                      !.reported = apply.record]
          ELSE apply' = [apply EXCEPT !.pc = "done", !.local = "threw",
                                      !.response = "error.500"]
    /\ AUnchanged

ApplyNext ==
    \/ AValidate
    \/ ACrm
    \/ AGeneratePdf
    \/ AUploadS3
    \/ AEmailRecipients
    \/ AEmailSendGrid
    \/ AEmailSmtp
    \/ AEmailSes
    \/ ASupabase
    \/ AStoreLocal

NoProviderSends(env) ==
    env.recipients => \A p \in {env.sendgrid, env.smtp, env.ses} : p # "working"

\* C17: A POST /api/apply whose first_name, last_name and email are present
\* is answered with an error only when the local store threw (500), whatever
\* CRM, S3 and the e-mail providers did; when it is answered ok: true,
\* pdfStatus is 'generated' exactly when generateApplicationPdf returned (the
\* file is then written), and pdfStatus and emailStatus are both 'failed'
\* otherwise; with no provider configured or every provider failing, a
\* request whose PDF was generated and whose record was stored is answered
\* ok: true with pdfStatus 'generated'.
C17_ProvidersNeverFail ==
    (apply # <<>> /\ apply.pc = "done") =>
        /\ apply.response = "error.400" <=> ~BodyComplete(apply.body)
        /\ apply.response = "error.500" <=> apply.local = "threw"
        /\ apply.response \in {"ok.supabase", "ok.local"} =>
              /\ apply.reported.pdfStatus = "generated" <=> apply.pdfData = "returned"
              /\ apply.reported.pdfStatus = "generated" => apply.pdfFile
              /\ apply.pdfData # "returned" =>
                    /\ apply.reported.pdfStatus = "failed"
                    /\ apply.reported.emailStatus = "failed"
              /\ apply.response = "ok.local" => apply.local = "written"
        /\ (BodyComplete(apply.body) /\ NoProviderSends(apply.env)
              /\ apply.pdfData = "returned" /\ apply.local # "threw") =>
              /\ apply.response \in {"ok.supabase", "ok.local"}
              /\ apply.reported.pdfStatus = "generated"
              /\ apply.reported.emailStatus \in {"skipped", "failed"}

C17_Witness ==
    /\ apply # <<>>
    /\ apply.pc = "done"
    /\ apply.env = [recipients |-> TRUE, sendgrid |-> "unconfigured",
                    smtp |-> "failing", ses |-> "failing"]
    /\ apply.record.crmStatus = "error"
    /\ apply.s3 = "failed"
    /\ apply.response = "ok.local"
    /\ apply.local = "written"
    /\ apply.reported.pdfStatus = "generated"
    /\ apply.reported.emailStatus = "failed"

\* The order in which emailApplicationPdf calls the providers.
ProviderOrder == <<"sendgrid", "smtp", "ses">>

ScaleMargins == Margins \cup {200, 378, 400}

ScaleInputs ==
    [options : [margin : ScaleMargins, headerScale : HeaderScales,
                emptyFields : BOOLEAN, logoPath : {FALSE}],
     logoSvg : {JsNull, SvgMarkup},
     websiteLogo : {JsNull, SvgMarkup},
     record : {EmptyRecord, FullRecord}]

NoScale == [num |-> 0, den |-> 1, availableHeight |-> 0, estimatedHeight |-> 0]

ScaleOff == scl = <<>>

ScaleInit ==
    scl \in [input : ScaleInputs, pc : {"header"}, y : {0}, scale : {NoScale},
             config : {NoConfig}]

\* let y = drawLogoHeader(doc, options)
KHeader ==
    /\ scl # <<>>
    /\ scl.pc = "header"
    /\ scl' = [scl EXCEPT
                 !.y = drawLogoHeader(scl.input.options, scl.input.logoSvg,
                                      scl.input.websiteLogo).y,
                 !.pc = "config"]
    /\ UNCHANGED <<nvars, gvars, lvars, cvars, svars, avars, mvars, zvars>>

\* buildSections, createLayoutConfig(1), estimateBodyHeight and the rescale
KResolve ==
    /\ scl # <<>>
    /\ scl.pc = "config"
    /\ LET sections == buildSections(scl.input.record)
       IN  scl' = [scl EXCEPT
                     !.scale = ResolveScale(scl.input.options, scl.y, sections),
                     !.config = ResolveConfig(scl.input.options, scl.y, sections),
                     !.pc = "resolved"]
    /\ UNCHANGED <<nvars, gvars, lvars, cvars, svars, avars, mvars, zvars>>

ScaleNext == KHeader \/ KResolve

\* C18: Once the configuration is resolved, the scale is 1 when the height
\* estimated at scale 1 does not exceed the available height and
\* availableHeight / estimatedHeight otherwise, the configuration is the one
\* of that scale, and for every options value the scale lies in (0, 1].
C18_ScaleInUnitInterval ==
    (scl # <<>> /\ scl.pc = "resolved") =>
        LET scale == scl.scale
        IN  /\ scale.estimatedHeight <= scale.availableHeight =>
                  scale.num = 1 /\ scale.den = 1
            /\ scale.estimatedHeight > scale.availableHeight =>
                  scale.num = scale.availableHeight /\ scale.den = scale.estimatedHeight
            /\ scl.config = createLayoutConfig(scale.num, scale.den,
                                               ~scl.input.options.emptyFields)
            /\ scale.den > 0
            /\ 0 < scale.num
            /\ scale.num <= scale.den

C18_Witness ==
    /\ scl # <<>>
    /\ scl.pc = "resolved"
    /\ scl.input.options.margin = 24
    /\ scl.input.options.headerScale = 75
    /\ scl.input.logoSvg = SvgMarkup
    /\ scl.scale.estimatedHeight = 708
    /\ scl.scale.availableHeight = 681
    /\ scl.scale.num = 681
    /\ scl.scale.den = 708

\* buildSections returns the same sections and rows for every record, so the
\* height estimated at scale 1 is the same in every render.
EstimatedHeightFixed ==
    /\ (scl # <<>> /\ scl.pc = "resolved") => scl.scale.estimatedHeight = 708
    /\ lrec # <<>> => estimateBodyHeight(buildSections(lrec), NoConfig) = 708

\* C26: The scale and the LayoutConfig resolved for a record are the ones
\* resolved for every other record under the same options and header: they
\* depend on the margin, the header and emptyFields, never on the record's
\* values.
C26_ConfigIgnoresRecord ==
    (scl # <<>> /\ scl.pc = "resolved") =>
        \A other \in Records :
            /\ ResolveScale(scl.input.options, scl.y, buildSections(other)) = scl.scale
            /\ ResolveConfig(scl.input.options, scl.y, buildSections(other)) = scl.config

C26_Witness ==
    /\ scl # <<>>
    /\ scl.pc = "resolved"
    /\ scl.input.record = FullRecord
    /\ scl.input.options.emptyFields = FALSE
    /\ scl.scale.num = 681
    /\ scl.scale.den = 708
    /\ scl.config = ResolveConfig(scl.input.options, scl.y, buildSections(EmptyRecord))
    /\ scl.config.rowHeight = (23 * 681) \div 708

(***************************************************************************)
(* createLayoutConfig at two scales s1 <= s2 of (0, 1], in steps of        *)
(* 1 / ScaleSteps.                                                         *)
(***************************************************************************)
ScaleSteps == 60

ConfigCmpOff == cmp = <<>>

ConfigCmpInit ==
    /\ cmp \in [s1 : 1..ScaleSteps, s2 : 1..ScaleSteps, show : BOOLEAN, pc : {"start"},
                c1 : {NoConfig}, c2 : {NoConfig}, full : {NoConfig}]
    /\ cmp.s1 <= cmp.s2

\* createLayoutConfig(scale, { showEmptyPlaceholder }) at s1, at s2 and at 1
MConfigure ==
    /\ cmp # <<>>
    /\ cmp.pc = "start"
    /\ cmp' = [cmp EXCEPT !.c1 = createLayoutConfig(cmp.s1, ScaleSteps, cmp.show),
                          !.c2 = createLayoutConfig(cmp.s2, ScaleSteps, cmp.show),
                          !.full = createLayoutConfig(1, 1, cmp.show),
                          !.pc = "configured"]
    /\ UNCHANGED <<nvars, gvars, lvars, cvars, svars, avars, kvars, zvars>>

ConfigCmpNext == MConfigure

\* The dimensions of a LayoutConfig in whole points, and its font sizes.
PointDimensions ==
    {"rowHeight", "sectionHeaderHeight", "sectionGap", "valueOffsetY", "legendHeight",
     "authorizationLabelGap", "authorizationTextHeight", "authorizationAfterTermsGap",
     "authorizationLineGap", "authorizationLineBaselineOffset", "authorizationOwnerGap",
     "authorizationColumnGap"}

FontDimensions ==
    {"labelFontSize", "valueFontSize", "sectionFontSize", "legendFontSize",
     "authorizationLabelFontSize", "authorizationFontSize", "authorizationMinFontSize",
     "authorizationLineLabelFontSize", "authorizationLineValueFontSize"}

\* Every dimension of config a is at most that of config b.
ConfigLeq(a, b) ==
    /\ \A d \in PointDimensions : a[d] <= b[d]
    /\ \A d \in FontDimensions : a[d] * b.den <= b[d] * a.den

\* C19: For scales s1 <= s2 in (0, 1], every dimension createLayoutConfig
\* returns at s1 (row and header heights, gaps, offsets, font sizes) is at
\* most its value at s2, and at most its value at scale 1.
C19_MonotoneInScale ==
    (cmp # <<>> /\ cmp.pc = "configured") =>
        /\ ConfigLeq(cmp.c1, cmp.c2)
        /\ ConfigLeq(cmp.c2, cmp.full)
        /\ cmp.s2 = ScaleSteps => cmp.c2.rowHeight = 23 /\ cmp.c2.valueFontSize = 84 * ScaleSteps

C19_Witness ==
    /\ cmp # <<>>
    /\ cmp.pc = "configured"
    /\ cmp.s1 < cmp.s2
    /\ cmp.s2 < ScaleSteps
    /\ cmp.c1.rowHeight < cmp.c2.rowHeight
    /\ cmp.c2.rowHeight < cmp.full.rowHeight
    /\ cmp.c1.valueFontSize < cmp.c2.valueFontSize
    /\ cmp.c1.sectionGap = cmp.c2.sectionGap

(***************************************************************************)
(* Properties of one render                                                *)
(***************************************************************************)
Rendering == lpc \notin {"off", "start", "header"}

TermsDrawn == lpc \in {"auth.lines", "footer", "stream", "done", "failed"}

\* doc.page.height - margin, the lowest Y of the printable area
YLimit == PageHeight - MarginOf(lopt)

ConfigAtFloors(config) ==
    /\ config.rowHeight >= 14
    /\ config.sectionHeaderHeight >= 11
    /\ config.sectionGap >= 3
    /\ config.labelFontSize >= 52 * config.den
    /\ config.valueFontSize >= 69 * config.den
    /\ config.sectionFontSize >= 72 * config.den
    /\ config.valueOffsetY >= 9
    /\ config.legendFontSize >= 54 * config.den
    /\ config.legendHeight >= 7
    /\ config.authorizationLabelFontSize >= 58 * config.den
    /\ config.authorizationLabelGap >= 8
    /\ config.authorizationTextHeight >= 56
    /\ config.authorizationFontSize >= 65 * config.den
    /\ config.authorizationMinFontSize >= 60 * config.den
    /\ config.authorizationAfterTermsGap >= 3
    /\ config.authorizationLineLabelFontSize >= 60 * config.den
    /\ config.authorizationLineValueFontSize >= 62 * config.den
    /\ config.authorizationLineGap >= 12
    /\ config.authorizationLineBaselineOffset >= 8
    /\ config.authorizationOwnerGap >= 2
    /\ config.authorizationColumnGap >= 8

\* The part of C6 about createLayoutConfig: every dimension of the resolved
\* LayoutConfig is at least its floor.
ConfigFloorsHold == lpc \notin {"off", "start", "header", "config"} => ConfigAtFloors(lconfig)

\* C6: For any record and any resolved scale, every dimension of the
\* resolved LayoutConfig is at least its floor in createLayoutConfig, and the
\* font size finally chosen for the authorization clause is at least
\* authorizationMinFontSize.
C6_FloorsRespected ==
    /\ ConfigFloorsHold
    /\ TermsDrawn => lauth.fontSize >= lconfig.authorizationMinFontSize

\* The keys of the fields a cell's value is built from.
SourceKeys(key) ==
    CASE key = "first_name" -> {"first_name", "last_name"}
      [] key = "owner_first_name" -> {"owner_first_name", "owner_last_name"}
      [] key = "additional_owner_first_name" ->
            {"additional_owner_first_name", "additional_owner_last_name"}
      [] OTHER -> {key}

IsBlank(s) == \A i \in 1..Len(s) : s[i] \in WhiteSpace

\* A value that is absent (undefined, null) or empty: a blank string, or an
\* array with nothing but blank items.
AbsentOrEmpty(v) ==
    CASE v.t \in {"undefined", "null"} -> TRUE
      [] v.t = "array" -> \A i \in 1..Len(v.a) : IsBlank(String(v.a[i]))
      [] OTHER -> IsBlank(String(v))

IsEmptyField(key) == AbsentOrEmpty(lrec[key])

Placeholder == IF lopt.emptyFields THEN <<>> ELSE Dash

\* The step at the render's position can be taken: nothing stops the render
\* before its document has ended.
RenderCanProceed ==
    \/ lpc \in {"start", "header", "config", "legend", "auth", "auth.terms", "auth.lines",
                "footer", "stream"}
    \/ /\ lpc = "section"
       /\ lsec \in 1..Len(Sections)
       /\ lrow \in 0..Len(Sections[lsec].rows)

\* C10 as stated: whenever the field of a drawn cell is absent or empty, the
\* cell shows "-" (placeholders enabled) or the empty text (emptyFields true).
C10_Original ==
    \A i \in DOMAIN ldrawn :
        IsEmptyField(ldrawn[i].key) => ldrawn[i].text = Placeholder

\* C10: Whenever every field a drawn cell's value is built from is absent or
\* empty (the field itself; for the three name cells the first and the last
\* name), the cell shows "-" when placeholders are enabled and the empty text
\* when emptyFields is true; for the empty record that is every cell of every
\* row, and the render goes on to its end.
C10_EmptyCells ==
    /\ \A i \in DOMAIN ldrawn :
            (\A k \in SourceKeys(ldrawn[i].key) : IsEmptyField(k))
                => ldrawn[i].text = Placeholder
    /\ (lrec = EmptyRecord /\ lpc \notin {"off", "done", "failed"}) => RenderCanProceed

C10_Witness ==
    /\ lpc = "done"
    /\ lrec = EmptyRecord
    /\ lopt.emptyFields
    /\ ldrawn # <<>>
    /\ \A i \in DOMAIN ldrawn : ldrawn[i].text = <<>>

\* Logo markup the header can draw: the content read from options.logoPath
\* when it is not blank, else the markup loaded from the website's logo file.
MarkupAvailable ==
    \/ lopt.logoPath /\ lenv.logoFile.t = "string" /\ ~IsBlank(lenv.logoFile.s)
    \/ lenv.websiteLogo.t = "string" /\ lenv.websiteLogo.s # <<>>

\* C11: A logo file that is missing or unreadable never makes the render
\* fail: the read error is absorbed (the markup loaded at start-up takes its
\* place), the header is the company-name text header exactly when no logo
\* markup is available, every step up to the end of the document can be
\* taken, and a rejection can only come from the document stream after the
\* whole page was drawn.
C11_LogoFailureAbsorbed ==
    /\ (lpc \notin {"off", "start"} /\ lopt.logoPath /\ lenv.logoFile = JsNull)
            => llogo = lenv.websiteLogo
    /\ Rendering => (lhead = "text" <=> ~MarkupAvailable)
    /\ Rendering => (lhead = "logo" <=> MarkupAvailable)
    /\ lpc \notin {"off", "done", "failed"} => RenderCanProceed
    /\ lpc = "failed" => (lhead # "none" /\ lpages = 1 /\ lauth # NoAuth)

C11_Witness ==
    /\ lpc = "done"
    /\ lopt.logoPath
    /\ lenv.logoFile = JsNull
    /\ lenv.websiteLogo = JsNull
    /\ lhead = "text"
    /\ lpages = 1

Repeated == lpc = "done" /\ lfirst # NoDoc

\* What was drawn does not depend on the call: a repeated call draws the same
\* operations with the same header, LayoutConfig, cell widths, texts and
\* authorization font size.
SameDrawing == Repeated => ldoc.content = lfirst.content

\* C14: Two calls of the Layout Renderer with the same record and the same
\* options resolve with identical documents: what is drawn and the bytes of
\* the document do not depend on the time of the call.
C14_IdenticalOutput == Repeated => ldoc = lfirst

C14_Witness ==
    /\ Repeated
    /\ lrec = FullRecord
    /\ ldoc.content = lfirst.content
    /\ Len(ldoc.content) > 20
    /\ ldoc.creationDate # lfirst.creationDate

(***************************************************************************)
(* Properties of the generation selection and of the Template Filler.      *)
(***************************************************************************)
Count(e) == Cardinality({i \in DOMAIN glog : glog[i] = e})
Logged(e) == \E i \in DOMAIN glog : glog[i] = e
Before(e, f) == \A j \in DOMAIN glog : glog[j] = f => \E i \in 1..(j - 1) : glog[i] = e

IoFailures == {"mkdir.fail", "layout.reject", "writeFile.fail"}

\* C1 as stated: in every finished run of generateApplicationPdf the Template
\* Filler was attempted exactly once, the Layout Renderer at most once and
\* only after the filler failed, and a successful filler's buffer is the
\* output without the Layout Renderer.
C1_Original ==
    (gcaller = "server" /\ gpc = "done") =>
        /\ Count("fill.start") = 1
        /\ Count("layout.start") <= 1
        /\ Before("fill.throw", "layout.start")
        /\ Logged("fill.return") => ~Logged("layout.start")

\* C1 (amended): once the output directory has been created, the Template
\* Filler is attempted first and exactly once; the Layout Renderer is
\* attempted at most once and only after the Template Filler has failed; when
\* the Template Filler succeeds the Layout Renderer is not invoked and the
\* buffer held (and returned, when the file write succeeds) is the filler's.
\* When creating the directory fails, neither pipeline is attempted.
C1_FixedFallback ==
    gcaller = "server" =>
        /\ Count("fill.start") <= 1
        /\ Count("layout.start") <= 1
        /\ (Logged("mkdir") /\ gpc # "fill") => Count("fill.start") = 1
        /\ Logged("mkdir.fail") => (~Logged("fill.start") /\ ~Logged("layout.start"))
        /\ Before("fill.start", "fill.throw")
        /\ Before("fill.throw", "layout.start")
        /\ Logged("fill.return") =>
              /\ ~Logged("layout.start")
              /\ gpc = "write" => gbuf = "template"
              /\ goutcome = "resolved" => gbuf = "template"

C1_Witness ==
    /\ gcaller = "server"
    /\ gpc = "done"
    /\ goutcome = "resolved"
    /\ Logged("fill.throw")
    /\ Count("layout.start") = 1
    /\ gbuf = "layout"

\* C2 as stated: every run of the selection ends in success with a PDF buffer.
C2_Original ==
    (gcaller = "server" /\ gpc = "done") => (goutcome = "resolved" /\ gbuf # "none")

\* C2 (amended): a run of generateApplicationPdf ends resolved, with a PDF
\* buffer, exactly when neither the directory creation, nor the layout
\* document stream, nor the file write failed; whenever the Template Filler
\* fails the Layout Renderer is attempted, and it hands over its buffer unless
\* its document stream emits an error, which rejects the run; no run is stuck
\* before it is done.
C2_SuccessUnlessIoFails ==
    gcaller = "server" =>
        /\ gpc = "done" =>
              (goutcome = "resolved" <=> ~(\E e \in IoFailures : Logged(e)))
        /\ goutcome = "resolved" => (gpc = "done" /\ gbuf \in {"template", "layout"})
        /\ goutcome = "rejected" => (gpc = "done" /\ gbuf = "none")
        /\ (Logged("fill.throw") /\ gpc \notin {"layout"}) => Logged("layout.start")
        /\ (Logged("fill.throw") /\ gpc = "write") => gbuf = "layout"
        /\ gpc # "done" => ENABLED GenNext

C2_Witness ==
    /\ gcaller = "server"
    /\ gpc = "done"
    /\ goutcome = "resolved"
    /\ Logged("no.fields")
    /\ gbuf = "layout"

\* The resolved template paths of the model that carry a branded name.
IsBranded(cwd, options) ==
    \/ options.templatePath \in {<<"/", "t", "/", "C", "r", "e", "a", "t", "i", "v", "e", "-", "a", "p", "p", ".", "p", "d", "f">>, <<"/", "t", "/", "G", "o", "l", "d", "e", "n", "-", "A", "g", "e", "-", "A", "s", "s", "i", "s", "t", "e", "d", "-", "L", "i", "v", "i", "n", "g", ".", "p", "d", "f">>, PDF_FORM_TEMPLATE_PATH(<<"/", "C", "r", "e", "a", "t", "i", "v", "e">>)}
    \/ options.templatePath = <<"t", "/", "a", "p", "p", ".", "p", "d", "f">> /\ cwd = <<"/", "C", "R", "E", "A", "T", "I", "V", "E">>

\* C3: the Template Filler throws, and returns no buffer, when the template
\* path is unset, when the file is missing or unreadable, when the path has a
\* disallowed branded name, and when the loaded document has no form field;
\* a failed filler holds no buffer and starts no other rendering itself.
C3_FillerFails ==
    /\ (gopt.templatePath = <<>> /\ Logged("fill.start")) =>
          (Logged("fill.throw") /\ ~Logged("access") /\ ~Logged("access.missing"))
    /\ Logged("access.missing") => Logged("fill.throw")
    /\ Logged("readFile.fail") => Logged("fill.throw")
    /\ (IsBranded(gcwd, gopt) /\ Logged("access")) => Logged("fill.throw")
    /\ (gform = {} /\ Logged("getForm")) => Logged("fill.throw")
    /\ Logged("fill.throw") =>
          /\ ~Logged("fill.return")
          /\ ~Logged("save")
          /\ gbuf # "template"
          /\ gcaller = "direct" =>
                (gpc = "done" /\ goutcome = "rejected" /\ gbuf = "none"
                    /\ ~Logged("layout.start"))

C3_Witness ==
    /\ gcaller = "direct"
    /\ gpc = "done"
    /\ goutcome = "rejected"
    /\ Logged("getForm")
    /\ gform = {}

\* The template at the server's path is a document the Layout Renderer wrote:
\* it is there, it is read and loaded whenever the filler gets that far, and
\* it holds no form field.
RendererTemplate ==
    /\ gcaller = "server"
    /\ gform = {}
    /\ ~Logged("access.missing")
    /\ ~Logged("readFile.fail")
    /\ ~Logged("load.fail")

FillEnded == Logged("fill.throw") \/ Logged("fill.return")

C4_RejectBeforeLoad ==
    /\ IsBranded(gcwd, gopt) =>
          (~Logged("readFile") /\ ~Logged("readFile.fail") /\ ~Logged("load")
              /\ ~Logged("load.fail") /\ ~Logged("getForm"))
    /\ \A e \in {"setText", "updateFieldAppearances", "flatten", "save", "save.fail"} :
          /\ Before("getForm", e)
          /\ Logged(e) => (gform # {} /\ ~Logged("no.fields"))

C4_Witness ==
    /\ IsBranded(gcwd, gopt)
    /\ Logged("pattern.rejected")
    /\ Logged("fill.throw")
    /\ gpc = "done"

\* Every e of the log comes before every f of the log.
AllBefore(e, f) ==
    \A i \in DOMAIN glog : \A j \in DOMAIN glog :
        (glog[i] = e /\ glog[j] = f) => i < j

\* C12: In a fill that returned a buffer, the field appearances were
\* regenerated once, after every field value was written and before the
\* document was serialized; and the form was flattened, before the
\* serialization, exactly when options.flatten is not false: an omitted
\* flatten option flattens.
C12_AppearancesThenFlatten ==
    Logged("fill.return") =>
        /\ Count("updateFieldAppearances") = 1
        /\ Count("setText") = Cardinality(DOMAIN gwritten)
        /\ AllBefore("setText", "updateFieldAppearances")
        /\ AllBefore("updateFieldAppearances", "save")
        /\ Logged("flatten") <=> gopt.flatten # "false"
        /\ AllBefore("flatten", "save")
        /\ Count("flatten") <= 1

C12_Witness ==
    /\ Logged("fill.return")
    /\ gopt.flatten = "absent"
    /\ Logged("flatten")
    /\ Count("setText") >= 2

FieldsWritten == Logged("updateFieldAppearances")

\* The normalized value of a name's mapping: the record's field, the
\* MM/DD/YYYY form of a date.
MappedTextRef(name) ==
    CASE name = "owner_dob" -> DateRef(grec["owner_dob"])
      [] name = "contact_agreement" -> YesNoRef(grec["contact_agreement"], TRUE)
      [] OTHER -> NormalizeRef(grec[name])

\* C13 as stated: once the fields were written, every mapped name that is a
\* text field of the template holds the normalized value of its mapping, the
\* other mapped names are skipped, and nothing but a failed serialization
\* makes the fill throw.
C13_Original ==
    FieldsWritten =>
        /\ Logged("fill.throw") => Logged("save.fail")
        /\ \A name \in MappedNames :
              IF name \in gform /\ name \in TextFieldNames
              THEN name \in DOMAIN gwritten /\ gwritten[name] = MappedTextRef(name)
              ELSE name \notin DOMAIN gwritten

\* What the filler does guarantee: filling a template that has a form field
\* but lacks mapped names does not throw (only a failed serialization does): a
\* mapped name with no text field of that name is skipped, and a
\* mapped name that is a text field holds the normalized value of its mapping
\* unless that text is longer than the field's maximum length, in which case
\* the field is skipped as well.
C13_SkipsWithoutError ==
    FieldsWritten =>
        /\ Logged("fill.throw") => Logged("save.fail")
        /\ gform # {}
        /\ \A name \in MappedNames :
              IF /\ name \in gform
                 /\ name \in TextFieldNames
                 /\ MaxLengthOf(name) # 0 => Len(MappedTextRef(name)) <= MaxLengthOf(name)
              THEN name \in DOMAIN gwritten /\ gwritten[name] = MappedTextRef(name)
              ELSE name \notin DOMAIN gwritten

C13_Witness ==
    /\ Logged("fill.return")
    /\ gform = {"email", "notes", "contact_agreement"}
    /\ DOMAIN gwritten = {"email"}
    /\ gwritten["email"] = <<"a", "@", "b">>
    /\ goutcome = "resolved"

(***************************************************************************)
(* drawFieldRow on its own: each row of buildSections at the content       *)
(* width of each whole-point margin of the LETTER page.                    *)
(***************************************************************************)
\* options.margin, up to half the page width
RowMargins == 0..(PageWidth \div 2)

RowInit ==
    /\ frow \in [margin : RowMargins, sec : 1..Len(Sections), row : 1..9, pc : {"start"},
                 x : {0}, width : {0}, cells : {<<>>}]
    /\ frow.row <= Len(Sections[frow.sec].rows)

RowFrame == UNCHANGED <<nvars, gvars, lvars, xvars, trunc, comp, rl, steps>>

\* renderOnePageLayout: contentX, contentWidth, then drawFieldRow of the row
RDrawFieldRow ==
    /\ frow # <<>>
    /\ frow.pc = "start"
    /\ LET options == [margin |-> frow.margin, headerScale |-> 0, emptyFields |-> FALSE,
                       logoPath |-> FALSE]
           pageMargin == MarginOf(options)
           contentX == pageMargin
           contentWidth == PageWidth - pageMargin * 2
           sections == buildSections(EmptyRecord)
           config == ResolveConfig(options, drawLogoHeader(options, JsNull, JsNull).y,
                                   sections)
       IN  frow' = [frow EXCEPT
                      !.x = contentX,
                      !.width = contentWidth,
                      !.cells = drawFieldRow(contentX, contentWidth,
                                             sections[frow.sec].rows[frow.row], config),
                      !.pc = "drawn"]
    /\ RowFrame

RowNext == RDrawFieldRow

\* The spans of the row drawn.
RowSpans == [k \in 1..Len(frow.cells) |-> SpanOf(Sections[frow.sec].rows[frow.row][k])]

\* C21: For every row of every section and every content width, the cells
\* drawn by drawFieldRow are adjacent from x on, each cell but the last is
\* round(width * span / totalSpan) wide, the last one takes the remaining
\* width, the widths sum to the row width, the last cell ends at x + width,
\* and every cell width is positive.
C21_CellsFillRow ==
    (frow # <<>> /\ frow.pc = "drawn") =>
        LET cells == frow.cells
            n == Len(cells)
            totalSpan == SumSeq(RowSpans)
        IN  /\ n = Len(Sections[frow.sec].rows[frow.row])
            /\ cells[1].x = frow.x
            /\ \A k \in 1..(n - 1) :
                  /\ cells[k + 1].x = cells[k].x + cells[k].width
                  /\ cells[k].width = RoundDiv(frow.width * RowSpans[k], totalSpan)
            /\ SumSeq([k \in 1..n |-> cells[k].width]) = frow.width
            /\ cells[n].x + cells[n].width = frow.x + frow.width
            /\ \A k \in 1..n : cells[k].width > 0

\* C21 (amended): as C21, with every cell width positive whenever the content
\* width exceeds 12 points.
C21_CellsFillRowWide ==
    (frow # <<>> /\ frow.pc = "drawn") =>
        LET cells == frow.cells
            n == Len(cells)
            totalSpan == SumSeq(RowSpans)
        IN  /\ n = Len(Sections[frow.sec].rows[frow.row])
            /\ cells[1].x = frow.x
            /\ \A k \in 1..(n - 1) :
                  /\ cells[k + 1].x = cells[k].x + cells[k].width
                  /\ cells[k].width = RoundDiv(frow.width * RowSpans[k], totalSpan)
            /\ SumSeq([k \in 1..n |-> cells[k].width]) = frow.width
            /\ cells[n].x + cells[n].width = frow.x + frow.width
            /\ frow.width > 12 => \A k \in 1..n : cells[k].width > 0

C21_Witness ==
    /\ frow # <<>>
    /\ frow.pc = "drawn"
    /\ frow.margin = 24
    /\ Len(frow.cells) = 4
    /\ frow.width = 564
    /\ \A k \in 1..4 : frow.cells[k].width > 0
    /\ frow.cells[4].x + frow.cells[4].width = 588
    /\ frow.cells[4].width # RoundDiv(frow.width * RowSpans[4], SumSeq(RowSpans))

(***************************************************************************)
(* truncateText on its own, one turn of its while loop at a time, at the   *)
(* font sizes and widths drawFieldRow and drawAuthorizationLine pass.      *)
(***************************************************************************)
MaxTruncLen == 4

TruncAlphabet == {"i", "a", "W", " "}

RECURSIVE StringsUpTo(_, _)
StringsUpTo(alphabet, n) ==
    IF n = 0 THEN {<<>>}
    ELSE LET shorter == StringsUpTo(alphabet, n - 1)
         IN  shorter \cup {Append(s, c) : s \in shorter, c \in alphabet}

\* config.labelFontSize, config.valueFontSize and
\* config.authorizationLineValueFontSize at scale 1, in tenths of a point
TruncFontSizes == {64, 71, 84}

\* Math.max(10, cellWidth - inset * 2), Math.max(24, rowWidth - labelWidth - 4)
TruncWidths == {10, 12, 16, 24}

TruncInit ==
    trunc \in [value : {JsStr(s) : s \in StringsUpTo(TruncAlphabet, MaxTruncLen)},
               f : TruncFontSizes, maxWidth : TruncWidths, emptyFallback : {Dash},
               pc : {"enter"}, text : {<<>>}, result : {<<>>}, turns : {0}]

TruncFrame == UNCHANGED <<nvars, gvars, lvars, xvars, frow, comp, rl, steps>>

\* truncateText up to its loop: the three early returns
TEnter ==
    /\ trunc # <<>>
    /\ trunc.pc = "enter"
    /\ LET safeValue == normalizeValue(trunc.value)
       IN  IF safeValue = <<>>
           THEN trunc' = [trunc EXCEPT !.result = trunc.emptyFallback, !.pc = "returned"]
           ELSE IF trunc.maxWidth <= 8
           THEN trunc' = [trunc EXCEPT !.result = <<>>, !.pc = "returned"]
           ELSE IF WidthFits(safeValue, trunc.f, 1, trunc.maxWidth)
           THEN trunc' = [trunc EXCEPT !.result = safeValue, !.pc = "returned"]
           ELSE trunc' = [trunc EXCEPT !.text = safeValue, !.pc = "loop"]
    /\ TruncFrame

TShorten_dropsTwo ==
    /\ trunc # <<>>
    /\ trunc.pc = "loop"
    /\ IF Len(trunc.text) > 0
          /\ ~WidthFits(trunc.text \o Ellipsis, trunc.f, 1, trunc.maxWidth)
       THEN trunc' = [trunc EXCEPT !.text = SubSeq(trunc.text, 1, Len(trunc.text) - 2),
                                   !.turns = trunc.turns + 1]
       ELSE trunc' = [trunc EXCEPT
                        !.result = IF trunc.text # <<>> THEN trunc.text \o Ellipsis
                                   ELSE Ellipsis,
                        !.pc = "returned"]
    /\ TruncFrame

\* One test of the while condition: text = text.slice(0, -1) when it holds,
\* the return of text + ellipsis (or the bare ellipsis) when it does not.
TShorten ==
    /\ trunc # <<>>
    /\ trunc.pc = "loop"
    /\ IF Len(trunc.text) > 0
          /\ ~WidthFits(trunc.text \o Ellipsis, trunc.f, 1, trunc.maxWidth)
       THEN trunc' = [trunc EXCEPT !.text = SubSeq(trunc.text, 1, Len(trunc.text) - 1),
                                   !.turns = trunc.turns + 1]
       ELSE trunc' = [trunc EXCEPT
                        !.result = IF trunc.text # <<>> THEN trunc.text \o Ellipsis
                                   ELSE Ellipsis,
                        !.pc = "returned"]
    /\ TruncFrame

TruncNext == TEnter \/ TShorten

Prefix(s, n) == SubSeq(s, 1, n)

ClauseFits(f) ==
    HeightFits(f, lconfig.den, Max(20, ContentWidth - 10), lenv.wrapSlack,
               lconfig.authorizationTextHeight)

\* The number of 0.2 steps from the nominal size down to the size used.
StepsTaken == (lconfig.authorizationFontSize - lauth.fontSize) \div (2 * lconfig.den)

\* C23: Once the clause is drawn, the size used is the nominal size less a
\* whole number of 0.2 steps; every larger size of that sequence is above the
\* minimum and does not fit the budget, so when the clause fits at the size
\* used, that is the largest size of the sequence that fits; the loop takes
\* no more steps than lie between the nominal size and the minimum; the
\* clause is drawn with the ellipsis exactly when it does not fit at the size
\* used, and then the size used is no longer above the minimum.
C23_LargestFittingSize ==
    TermsDrawn =>
        /\ lauth.fontSize <= lconfig.authorizationFontSize
        /\ lauth.fontSize = lconfig.authorizationFontSize - StepsTaken * 2 * lconfig.den
        /\ \A k \in 0..(StepsTaken - 1) :
              LET larger == lconfig.authorizationFontSize - k * 2 * lconfig.den
              IN  larger > lconfig.authorizationMinFontSize /\ ~ClauseFits(larger)
        /\ StepsTaken <=
              (lconfig.authorizationFontSize - lconfig.authorizationMinFontSize)
                 \div (2 * lconfig.den) + 1
        /\ lauth.ellipsis <=> ~ClauseFits(lauth.fontSize)
        /\ lauth.ellipsis => lauth.fontSize <= lconfig.authorizationMinFontSize

C23_Witness ==
    /\ TermsDrawn
    /\ StepsTaken >= 1
    /\ ~lauth.ellipsis
    /\ ClauseFits(lauth.fontSize)
    /\ ~ClauseFits(lauth.fontSize + 2 * lconfig.den)

(***************************************************************************)
(* The strings the two pipelines derive from one record: the text the      *)
(* Template Filler sets in a form field (normalizeValue of its mapping)    *)
(* and the text the Layout Renderer shows in the matching cell             *)
(* (normalizeValue of the cell's value, before the placeholder and the     *)
(* truncation).                                                            *)
(***************************************************************************)
\* Each composite name: the record keys of its parts, the form field of the
\* filler and the key of the renderer's cell.
Composites ==
    {[first |-> "first_name", last |-> "last_name",
      field |-> "preferred_contact_name", cell |-> "first_name"],
     [first |-> "owner_first_name", last |-> "owner_last_name",
      field |-> "owner1_print_name", cell |-> "owner_first_name"],
     [first |-> "additional_owner_first_name", last |-> "additional_owner_last_name",
      field |-> "owner2_print_name", cell |-> "additional_owner_first_name"]}

PartValues ==
    {JsUndefined, JsStr(<<>>), JsStr(<<" ">>), JsStr(<<"A">>), JsStr(<<" ", "B", " ">>)}

DateValues ==
    {JsUndefined, JsStr(<<"1", "/", "5", "/", "2", "4">>),
     JsStr(<<"2", "0", "2", "4", "-", "0", "1", "-", "0", "5">>)}

FlagValues == {JsUndefined, JsStr(<<"o", "n">>), JsStr(W_checked)}

CompInit ==
    comp \in [composite : Composites, first : PartValues, last : PartValues,
              date : DateValues,
              incorporation : {JsUndefined, JsStr(<<"T", "X">>)},
              flag : FlagValues, pc : {"start"}, filled : {<<>>}, shown : {<<>>}]

\* The record the inputs stand for.
CompRecord ==
    [k \in Keys |->
        CASE k = comp.composite.first -> comp.first
          [] k = comp.composite.last -> comp.last
          [] k = "business_start_date" -> comp.date
          [] k = "state_of_incorporation" -> comp.incorporation
          [] k = "business_state" -> JsStr(<<"C", "A">>)
          [] k = "has_other_financing" -> comp.flag
          [] k = "legal_business_name" -> JsStr(<<" ", "C", "o", " ">>)
          [] OTHER -> JsUndefined]

\* The cell of buildSections with this key.
CellOf(sections, key) ==
    LET places == {<<i, j, k>> \in (1..3) \X (1..9) \X (1..5) :
                      /\ i <= Len(sections)
                      /\ j <= Len(sections[i].rows)
                      /\ k <= Len(sections[i].rows[j])
                      /\ sections[i].rows[j][k].key = key}
        p == CHOOSE q \in places : TRUE
    IN  sections[p[1]].rows[p[2]][p[3]]

\* The form field and the cell of each derivation compared.
Derivations ==
    [name |-> [field |-> comp.composite.field, cell |-> comp.composite.cell],
     date |-> [field |-> "business_start_date", cell |-> "business_start_date"],
     state |-> [field |-> "state_of_incorporation", cell |-> "state_of_incorporation"],
     flag |-> [field |-> "has_other_financing", cell |-> "has_other_financing"],
     plain |-> [field |-> "legal_business_name", cell |-> "legal_business_name"]]

CompFrame == UNCHANGED <<nvars, gvars, lvars, xvars, frow, trunc, rl, steps>>

\* buildFieldMappings and setText(normalizeValue(value)) on one side,
\* buildSections and normalizeValue(cell.value) on the other
CDerive ==
    /\ comp # <<>>
    /\ comp.pc = "start"
    /\ LET sections == buildSections(CompRecord)
       IN  comp' = [comp EXCEPT
                      !.filled = [d \in DOMAIN Derivations |->
                                    normalizeValue_fill(
                                        buildFieldMappings(CompRecord, Derivations[d].field))],
                      !.shown = [d \in DOMAIN Derivations |->
                                    normalizeValue(
                                        CellOf(sections, Derivations[d].cell).value)],
                      !.pc = "derived"]
    /\ CompFrame

CompNext == CDerive

\* No leading, trailing or doubled whitespace.
NoStrayWhitespace(s) ==
    /\ s = trim(s)
    /\ \A i \in 1..(Len(s) - 1) : ~(s[i] \in WhiteSpace /\ s[i + 1] \in WhiteSpace)

\* What the claim says of a composite name made of these parts.
IsComposedOf(result, first, last) ==
    LET a == normalizeValue(first)
        b == normalizeValue(last)
    IN  /\ (a = <<>> /\ b = <<>>) => result = <<>>
        /\ (a = <<>> /\ b # <<>>) => result = b
        /\ (a # <<>> /\ b = <<>>) => result = a
        /\ NoStrayWhitespace(result)

\* C24: In the Template Filler and in the Layout Renderer each composite name
\* is the first and last part joined by one space and trimmed: with one part
\* empty it is the other part, with both empty it is "", and for any parts,
\* also parts with surrounding whitespace, it has no leading, trailing or
\* doubled whitespace.
C24_ComposedNames ==
    (comp # <<>> /\ comp.pc = "derived") =>
        /\ IsComposedOf(comp.filled.name, comp.first, comp.last)
        /\ IsComposedOf(comp.shown.name, comp.first, comp.last)

C24_Witness ==
    /\ comp # <<>>
    /\ comp.pc = "derived"
    /\ comp.first = JsStr(<<" ">>)
    /\ comp.last = JsStr(<<" ", "B", " ">>)
    /\ comp.filled.name = <<"B">>
    /\ comp.shown.name = <<"B">>

\* C25: For every record and every field both pipelines present (composed
\* names, dates, state of incorporation, yes/no flags, plain fields), the
\* string the Template Filler sets in the form field equals the string the
\* Layout Renderer shows in the corresponding cell.
C25_SameDerivations ==
    (comp # <<>> /\ comp.pc = "derived") =>
        \A d \in DOMAIN Derivations : comp.filled[d] = comp.shown[d]

C25_Witness ==
    /\ comp # <<>>
    /\ comp.pc = "derived"
    /\ comp.filled = comp.shown
    /\ comp.filled.name = <<"A", " ", "A">>
    /\ comp.filled.flag = YES
    /\ comp.filled.state = <<"T", "X">>
    /\ comp.filled.date = <<"1", "/", "5", "/", "2", "4">>
    /\ comp.filled.plain = <<"C", "o">>

(***************************************************************************)
(* Rate limiting: the middleware of createRateLimiter over the shared      *)
(* requestBuckets map, the cleanup interval, and the clock.  Next to the   *)
(* map the model keeps a second map that the same middleware updates and   *)
(* that is never cleaned, to compare the decisions.                        *)
(***************************************************************************)
\* Math.max(10 * 1000, ...): the shortest window, in milliseconds
RateLimitWindowMs == 10000

\* Math.max(3, ...): the smallest login limit
LoginRateLimitMaxRequests == 3

\* The limit of the other limiters, scaled down from its minimum of 10
RateLimitMaxRequests == 2

\* The clock advances in steps of RateTickMs up to MaxRateTicks steps.
RateTickMs == 5000
MaxRateTicks == 4

\* `${keyPrefix}:${ip}` of two clients of one limiter and one client of
\* another
BucketKeys == {<<"contact", "10.0.0.1">>, <<"contact", "10.0.0.2">>,
               <<"client-login", "10.0.0.1">>}

maxRequestsOf(keyPrefix) ==
    IF keyPrefix = "client-login" THEN LoginRateLimitMaxRequests ELSE RateLimitMaxRequests

\* requestBuckets.get(key) of a key that is not in the map
NoBucket == [count |-> 0, resetAt |-> 0]

createRateLimiter_admitsOneMore(buckets, key, now) ==
    LET current == buckets[key]
        maxRequests == maxRequestsOf(key[1])
    IN  IF current = NoBucket \/ now >= current.resetAt
        THEN [buckets |-> [buckets EXCEPT ![key] =
                             [count |-> 1, resetAt |-> now + RateLimitWindowMs]],
              status |-> "next", retryAfter |-> 0]
        ELSE IF current.count > maxRequests
        THEN [buckets |-> buckets, status |-> "429",
              retryAfter |-> Max(1, CeilDiv(current.resetAt - now, 1000))]
        ELSE [buckets |-> [buckets EXCEPT ![key].count = current.count + 1],
              status |-> "next", retryAfter |-> 0]

\* The middleware createRateLimiter returns, on the map `buckets`.
createRateLimiter(buckets, key, now) ==
    LET current == buckets[key]
        maxRequests == maxRequestsOf(key[1])
    IN  IF current = NoBucket \/ now >= current.resetAt
        THEN [buckets |-> [buckets EXCEPT ![key] =
                             [count |-> 1, resetAt |-> now + RateLimitWindowMs]],
              status |-> "next", retryAfter |-> 0]
        ELSE IF current.count >= maxRequests
        THEN [buckets |-> buckets, status |-> "429",
              retryAfter |-> Max(1, CeilDiv(current.resetAt - now, 1000))]
        ELSE [buckets |-> [buckets EXCEPT ![key].count = current.count + 1],
              status |-> "next", retryAfter |-> 0]

NoResponse == [key |-> <<>>, now |-> 0, before |-> NoBucket, after |-> NoBucket,
               status |-> "", retryAfter |-> 0, uncleaned |-> ""]

LimiterInit ==
    rl = [now |-> 0,
          buckets |-> [k \in BucketKeys |-> NoBucket],
          uncleaned |-> [k \in BucketKeys |-> NoBucket],
          admitted |-> [k \in BucketKeys |-> 0],
          last |-> NoResponse]

LimiterFrame == UNCHANGED <<nvars, gvars, lvars, xvars, frow, trunc, comp, steps>>

\* Date.now() moves on.
RClock ==
    /\ rl # <<>>
    /\ rl.now < MaxRateTicks * RateTickMs
    /\ rl' = [rl EXCEPT !.now = rl.now + RateTickMs]
    /\ LimiterFrame

\* One request of a client through one limiter.
RRequest ==
    /\ rl # <<>>
    /\ \E key \in BucketKeys :
          LET r == createRateLimiter(rl.buckets, key, rl.now)
              u == createRateLimiter(rl.uncleaned, key, rl.now)
              opens == rl.buckets[key] = NoBucket \/ rl.now >= rl.buckets[key].resetAt
          IN  rl' = [rl EXCEPT
                       !.buckets = r.buckets,
                       !.uncleaned = u.buckets,
                       !.admitted[key] =
                           IF r.status # "next" THEN @ ELSE IF opens THEN 1 ELSE @ + 1,
                       !.last = [key |-> key, now |-> rl.now,
                                 before |-> rl.buckets[key], after |-> r.buckets[key],
                                 status |-> r.status, retryAfter |-> r.retryAfter,
                                 uncleaned |-> u.status]]
    /\ LimiterFrame

\* The setInterval callback: delete every bucket with now >= resetAt.
RCleanup ==
    /\ rl # <<>>
    /\ rl' = [rl EXCEPT
                !.buckets = [k \in BucketKeys |->
                               IF rl.buckets[k] # NoBucket /\ rl.now >= rl.buckets[k].resetAt
                               THEN NoBucket ELSE rl.buckets[k]]]
    /\ LimiterFrame

LimiterNext == RClock \/ RRequest \/ RCleanup

\* What holds of the map and of the last response.
BucketsWithinLimit ==
    /\ \A k \in BucketKeys :
          /\ rl.admitted[k] <= maxRequestsOf(k[1])
          /\ rl.buckets[k] # NoBucket =>
                /\ rl.buckets[k].count \in 1..maxRequestsOf(k[1])
                /\ rl.buckets[k].count = rl.admitted[k]
    /\ rl.last.status = "429" =>
          /\ rl.last.retryAfter >= 1
          /\ rl.last.after = rl.last.before
          /\ rl.last.before.count = maxRequestsOf(rl.last.key[1])
          /\ rl.last.now < rl.last.before.resetAt
    /\ (rl.last.status = "next"
          /\ (rl.last.before = NoBucket \/ rl.last.now >= rl.last.before.resetAt)) =>
          rl.last.after = [count |-> 1, resetAt |-> rl.last.now + RateLimitWindowMs]
    /\ (rl.last.status = "next"
          /\ rl.last.before # NoBucket /\ rl.last.now < rl.last.before.resetAt) =>
          rl.last.after = [rl.last.before EXCEPT !.count = @ + 1]
    /\ rl.last.status = rl.last.uncleaned

\* What holds of every step: a request touches its own bucket only, and the
\* cleanup removes expired buckets only.
BucketsIndependent ==
    /\ \A k \in BucketKeys :
          (rl'.buckets[k] # rl.buckets[k] /\ rl'.buckets[k] # NoBucket) =>
              (rl'.last.key = k /\ rl'.last.after = rl'.buckets[k])
    /\ \A k \in BucketKeys :
          (rl'.buckets[k] # rl.buckets[k] /\ rl'.buckets[k] = NoBucket) =>
              rl.now >= rl.buckets[k].resetAt

\* C27: For each limiter and client IP, after any requests and cleanup ticks,
\* at most maxRequests requests of one window are passed on and the count is
\* in 1..maxRequests; a further request of the window gets 429 with a
\* Retry-After of at least 1 and leaves the bucket as it was; the first
\* request at or after resetAt opens a window with count 1; a request changes
\* no bucket but its own, and the cleanup removes expired buckets only, so
\* the decisions are the ones made without any cleanup.
C27_AtMostMaxPerWindow ==
    [](rl # <<>> => BucketsWithinLimit) /\ [][rl # <<>> => BucketsIndependent]_vars

C27_Witness ==
    /\ rl # <<>>
    /\ rl.last.key = <<"contact", "10.0.0.1">>
    /\ rl.last.status = "429"
    /\ rl.last.retryAfter = 5
    /\ rl.last.now = 3 * RateTickMs
    /\ rl.buckets[<<"contact", "10.0.0.1">>].count = RateLimitMaxRequests
    /\ rl.buckets[<<"client-login", "10.0.0.1">>].count = 1
    /\ rl.buckets[<<"contact", "10.0.0.2">>] = NoBucket
    /\ rl.uncleaned[<<"contact", "10.0.0.2">>] # NoBucket

(***************************************************************************)
(* The multi-step form: the handler of a [data-step-form] element with its *)
(* steps, its Next, Previous and Submit buttons (each may be absent) and   *)
(* its tabs.  A step index set holds the steps with a field that fails     *)
(* checkValidity().                                                        *)
(***************************************************************************)
MaxSteps == 3

\* The data-step-jump attributes of the tabs.
StepJumps == <<"0", "1", "2", "", "7", "-1", "x">>

\* Number(tab.dataset.stepJump || 0); nan for a value that is no number
StepJumpNumber(attribute) ==
    CASE attribute = "" -> [nan |-> FALSE, n |-> 0]
      [] attribute = "0" -> [nan |-> FALSE, n |-> 0]
      [] attribute = "1" -> [nan |-> FALSE, n |-> 1]
      [] attribute = "2" -> [nan |-> FALSE, n |-> 2]
      [] attribute = "7" -> [nan |-> FALSE, n |-> 7]
      [] attribute = "-1" -> [nan |-> FALSE, n |-> -1]
      [] OTHER -> [nan |-> TRUE, n |-> 0]

\* update(): what it sets for the step index `current`.  The buttons that
\* are absent keep "absent".
update(form, current) ==
    [form EXCEPT
       !.current = current,
       !.hidden = [index \in 0..(form.length - 1) |-> index # current],
       !.active = [index \in 1..Len(StepJumps) |-> index - 1 = current],
       !.percent = RoundDiv((current + 1) * 100, form.length),
       !.prevDisabled = IF form.prevButton THEN current = 0 ELSE @,
       !.nextDisplay = IF ~form.nextButton THEN @
                       ELSE IF current = form.length - 1 THEN "none" ELSE "inline-flex",
       !.submitDisplay = IF ~form.submitButton THEN @
                         ELSE IF current = form.length - 1 THEN "inline-flex" ELSE "none"]

\* validateStep(): every field of steps[current] passes checkValidity()
validateStep(form) == form.current \notin form.invalid

\* The form after `let current = 0` and the first update().
StepsInit ==
    \E length \in 1..MaxSteps, nextButton \in BOOLEAN, prevButton \in BOOLEAN,
       submitButton \in BOOLEAN :
      \E invalid \in SUBSET (0..(length - 1)) :
         steps = update([length |-> length, invalid |-> invalid,
                         nextButton |-> nextButton, prevButton |-> prevButton,
                         submitButton |-> submitButton,
                         current |-> 0, hidden |-> <<>>, active |-> <<>>, percent |-> 0,
                         prevDisabled |-> FALSE,
                         nextDisplay |-> IF nextButton THEN "" ELSE "absent",
                         submitDisplay |-> IF submitButton THEN "" ELSE "absent",
                         click |-> "none", before |-> 0], 0)

StepsFrame == UNCHANGED <<nvars, gvars, lvars, xvars, frow, trunc, comp, rl>>

Clicked(form, kind) == [form EXCEPT !.click = kind, !.before = form.current]

PNext_skipsValidation ==
    /\ steps # <<>>
    /\ steps.nextButton
    /\ steps' = update(Clicked(steps, "next"), Min(steps.current + 1, steps.length - 1))
    /\ StepsFrame

\* the click listener of nextButton
PNext ==
    /\ steps # <<>>
    /\ steps.nextButton
    /\ IF ~validateStep(steps)
       THEN steps' = Clicked(steps, "next")
       ELSE steps' = update(Clicked(steps, "next"),
                            Min(steps.current + 1, steps.length - 1))
    /\ StepsFrame

\* the click listener of prevButton
PPrev ==
    /\ steps # <<>>
    /\ steps.prevButton
    /\ steps' = update(Clicked(steps, "prev"), Max(steps.current - 1, 0))
    /\ StepsFrame

\* the click listener of a tab
PJump ==
    /\ steps # <<>>
    /\ \E tab \in 1..Len(StepJumps) :
          LET target == StepJumpNumber(StepJumps[tab])
          IN  IF target.nan
              THEN steps' = Clicked(steps, "jump")
              ELSE steps' = update(Clicked(steps, "jump"),
                                   Max(0, Min(target.n, steps.length - 1)))
    /\ StepsFrame

\* A field of a step becomes valid or invalid as the user edits it.
PEdit ==
    /\ steps # <<>>
    /\ \E index \in 0..(steps.length - 1) :
          steps' = [steps EXCEPT
                      !.invalid = IF index \in @ THEN @ \ {index} ELSE @ \cup {index},
                      !.click = "none"]
    /\ StepsFrame

StepsNext == PNext \/ PPrev \/ PJump \/ PEdit

RowOff == frow = <<>>
TruncOff == trunc = <<>>
CompOff == comp = <<>>
LimiterOff == rl = <<>>
StepsOff == steps = <<>>

ZOff == RowOff /\ TruncOff /\ CompOff /\ LimiterOff /\ StepsOff

AllOff ==
    NormOff /\ GenOff /\ LayOff /\ ConcOff /\ StoreOff /\ ApplyOff /\ ScaleOff /\ ConfigCmpOff

(***************************************************************************)
(* Specifications.                                                         *)
(***************************************************************************)
InitNorm == NormInit /\ GenOff /\ LayOff /\ ConcOff /\ StoreOff /\ ApplyOff /\ ScaleOff /\ ConfigCmpOff /\ ZOff

SpecNorm == InitNorm /\ [][NormNext]_vars

InitGen == NormOff /\ GenInit /\ LayOff /\ ConcOff /\ StoreOff /\ ApplyOff /\ ScaleOff /\ ConfigCmpOff /\ ZOff

SpecGen == InitGen /\ [][GenNext]_vars

InitLayout == NormOff /\ GenOff /\ LayInit /\ ConcOff /\ StoreOff /\ ApplyOff /\ ScaleOff /\ ConfigCmpOff /\ ZOff

SpecLayout == InitLayout /\ [][LayNext]_vars

InitTwice == NormOff /\ GenOff /\ LayInitTwice /\ ConcOff /\ StoreOff /\ ApplyOff /\ ScaleOff /\ ConfigCmpOff /\ ZOff

SpecTwice == InitTwice /\ [][TwiceNext]_vars

InitConc == NormOff /\ GenOff /\ LayOff /\ ConcInit /\ StoreOff /\ ApplyOff /\ ScaleOff /\ ConfigCmpOff /\ ZOff

SpecConc == InitConc /\ [][ConcNext]_vars

InitStore == NormOff /\ GenOff /\ LayOff /\ ConcOff /\ StoreInit /\ ApplyOff /\ ScaleOff /\ ConfigCmpOff /\ ZOff

SpecStore == InitStore /\ [][StoreNext]_vars

InitApply == NormOff /\ GenOff /\ LayOff /\ ConcOff /\ StoreOff /\ ApplyInit /\ ScaleOff /\ ConfigCmpOff /\ ZOff

SpecApply == InitApply /\ [][ApplyNext]_vars

InitScale ==
    NormOff /\ GenOff /\ LayOff /\ ConcOff /\ StoreOff /\ ApplyOff /\ ScaleInit /\ ConfigCmpOff /\ ZOff

SpecScale == InitScale /\ [][ScaleNext]_vars

InitConfigCmp ==
    NormOff /\ GenOff /\ LayOff /\ ConcOff /\ StoreOff /\ ApplyOff /\ ScaleOff /\ ConfigCmpInit /\ ZOff

SpecConfigCmp == InitConfigCmp /\ [][ConfigCmpNext]_vars

InitRow == AllOff /\ RowInit /\ TruncOff /\ CompOff /\ LimiterOff /\ StepsOff

SpecRow == InitRow /\ [][RowNext]_vars

InitTrunc == AllOff /\ RowOff /\ TruncInit /\ CompOff /\ LimiterOff /\ StepsOff

SpecTrunc == InitTrunc /\ [][TruncNext]_vars

InitComp == AllOff /\ RowOff /\ TruncOff /\ CompInit /\ LimiterOff /\ StepsOff

SpecComp == InitComp /\ [][CompNext]_vars

InitLimiter == AllOff /\ RowOff /\ TruncOff /\ CompOff /\ LimiterInit /\ StepsOff

SpecLimiter == InitLimiter /\ [][LimiterNext]_vars

InitSteps == AllOff /\ RowOff /\ TruncOff /\ CompOff /\ LimiterOff /\ StepsInit

SpecSteps == InitSteps /\ [][StepsNext]_vars

====
